---- MODULE Spec2Model ----
(***************************************************************************)
(* Paper-trading simulation engine of kalshi-btc-15-minute                 *)
(* (src/lib/tradingEngine.ts): per-strategy balance, positions, trades,    *)
(* cumulative P&L and daily return, driven by executeTradingCycle and      *)
(* settlePositions.                                                        *)
(*                                                                         *)
(* JavaScript numbers are modelled as exact rationals <<n, d>> in lowest   *)
(* terms (d > 0), so that position.averagePrice = totalCost / quantity is  *)
(* computed by a real division and not assumed to be an integer.           *)
(* Trade.id and Trade.timestamp (Date.now(), Math.random(), new Date())    *)
(* are never read by the engine and are left out of the trade record.      *)
(*                                                                         *)
(* runBacktest (src/unnamed/part_003) is modelled statement by statement   *)
(* in the record bt: length test, one fresh engine per strategy, the loop  *)
(* over the bars with its settlement, the classification of the trades     *)
(* and the result. The time a trade was made (the wall clock of the run)   *)
(* is kept beside the trade log in bt.tradeTimes. The Sharpe ratio, the    *)
(* daily returns and the summary over the results are left out.            *)
(*                                                                         *)
(* The store (src/lib/db.ts, src/supabase-schema.sql) is modelled by its   *)
(* three tables in db; the Trade objects that are saved carry the id and   *)
(* timestamp that the engine gave them (MemTrades).                        *)
(***************************************************************************)
EXTENDS Integers, Naturals, Sequences, FiniteSets, TLC

\* ------------------------------------------------------------------------
\* Bounds of the model
\* ------------------------------------------------------------------------

\* Number of calls (executeTradingCycle, settlePositions) made on an engine
\* that holds one strategy, as runBacktest builds it.
MaxOps == 3

\* Number of calls made on an engine that holds several strategies.
MaxLiveOps == 2

\* Number of requests the routes serve, and of days they are served on.
MaxRequests == 3

MaxDays == 2

\* Quantities a decision asks for (random.ts draws 1..10, the others use 5).
Quantities == {1, 2}

\* ------------------------------------------------------------------------
\* Exact rational arithmetic standing for JavaScript numbers
\* ------------------------------------------------------------------------

Abs(x) == IF x < 0 THEN -x ELSE x

RECURSIVE Gcd(_, _)
Gcd(a, b) == IF b = 0 THEN a ELSE Gcd(b, a % b)

\* n/d in lowest terms with a positive denominator; x/0 is kept as <<0, 0>>
\* (NaN or Infinity), which no arithmetic below turns back into a number.
Rat(n, d) ==
    IF d = 0 THEN <<0, 0>>
    ELSE LET g == Gcd(Abs(n), Abs(d))
             s == IF d < 0 THEN -1 ELSE 1
         IN  <<(s * n) \div g, (s * d) \div g>>

Num(n) == <<n, 1>>

IsNumber(a) == a[2] # 0

RAdd(a, b) == IF IsNumber(a) /\ IsNumber(b)
              THEN Rat(a[1] * b[2] + b[1] * a[2], a[2] * b[2]) ELSE <<0, 0>>

RSub(a, b) == IF IsNumber(a) /\ IsNumber(b)
              THEN Rat(a[1] * b[2] - b[1] * a[2], a[2] * b[2]) ELSE <<0, 0>>

RMul(a, b) == IF IsNumber(a) /\ IsNumber(b)
              THEN Rat(a[1] * b[1], a[2] * b[2]) ELSE <<0, 0>>

RDiv(a, b) == IF IsNumber(a) /\ IsNumber(b)
              THEN Rat(a[1] * b[2], a[2] * b[1]) ELSE <<0, 0>>

\* a <= b; every comparison with NaN is false, as in JavaScript.
RLe(a, b) == IsNumber(a) /\ IsNumber(b) /\ a[1] * b[2] <= b[1] * a[2]

RLt(a, b) == IsNumber(a) /\ IsNumber(b) /\ a[1] * b[2] < b[1] * a[2]

\* ------------------------------------------------------------------------
\* Data model (src/types/trading.ts)
\* ------------------------------------------------------------------------

\* Ids of the strategies held by the engine (two of createAllModels()).
ModelIds == {"random", "momentum"}

\* The ids of a list of strategies.
Ids(o) == { o[i] : i \in DOMAIN o }

MarketDirection == {"UP", "DOWN"}

\* The fields of MarketData the engine reads: yesPrice and noPrice.
\* A quoted bar (yes + no = 100) and a winner-take-all settlement bar.
MarketData ==
    { [yesPrice |-> Num(45), noPrice |-> Num(55)],
      [yesPrice |-> Num(100), noPrice |-> Num(0)] }

\* What makeDecision can do: return a decision, or throw ("THROW").
Decision ==
    [action : {"HOLD", "SELL", "THROW"}]
    \cup [action : {"BUY_YES", "BUY_NO"}, quantity : Quantities]

\* state.balance of the strategies createAllModels() returns.
DefaultBalance == 100

\* The initialBalance argument of runBacktest (default 100).
InitialBalances == {DefaultBalance, 250}

\* ModelState of a freshly created strategy.
NewModelState(balance) ==
    [ balance     |-> Num(balance),
      positions   |-> << >>,
      trades      |-> << >>,
      totalPnL    |-> Num(0),
      dailyReturn |-> Num(0) ]

\* ------------------------------------------------------------------------
\* PaperTradingEngine (src/lib/tradingEngine.ts)
\* ------------------------------------------------------------------------

\* Array.prototype.find on positions: index of the first position with the
\* direction, 0 when there is none.
RECURSIVE FindPositionFrom(_, _, _)
FindPositionFrom(positions, direction, i) ==
    IF i > Len(positions) THEN 0
    ELSE IF positions[i].direction = direction THEN i
    ELSE FindPositionFrom(positions, direction, i + 1)

FindPosition(positions, direction) == FindPositionFrom(positions, direction, 1)

\* executeTrade that leaves averagePrice as it was when it averages in.
ExecuteTradeStaleAverage(ms, id, trade) ==
    LET state == ms[id]
        idx == FindPosition(state.positions, trade.direction)
        existingPosition == state.positions[idx]
        positions ==
            IF idx # 0
            THEN [state.positions EXCEPT ![idx] =
                     [ direction    |-> existingPosition.direction,
                       quantity     |-> existingPosition.quantity + trade.quantity,
                       averagePrice |-> existingPosition.averagePrice,
                       totalCost    |-> RAdd(existingPosition.totalCost, trade.cost) ]]
            ELSE Append(state.positions,
                     [ direction    |-> trade.direction,
                       quantity     |-> trade.quantity,
                       averagePrice |-> trade.price,
                       totalCost    |-> trade.cost ])
    IN  [ms EXCEPT ![id] =
            [ balance     |-> RSub(state.balance, trade.cost),
              positions   |-> positions,
              trades      |-> Append(state.trades,
                                 [ direction |-> trade.direction, price |-> trade.price,
                                   quantity |-> trade.quantity, cost |-> trade.cost ]),
              totalPnL    |-> state.totalPnL,
              dailyReturn |-> state.dailyReturn ]]

\* executeTrade that pushes a new position for every trade.
ExecuteTradeAlwaysPush(ms, id, trade) ==
    LET state == ms[id]
    IN  [ms EXCEPT ![id] =
            [ balance     |-> RSub(state.balance, trade.cost),
              positions   |-> Append(state.positions,
                                 [ direction    |-> trade.direction,
                                   quantity     |-> trade.quantity,
                                   averagePrice |-> trade.price,
                                   totalCost    |-> trade.cost ]),
              trades      |-> Append(state.trades,
                                 [ direction |-> trade.direction, price |-> trade.price,
                                   quantity |-> trade.quantity, cost |-> trade.cost ]),
              totalPnL    |-> state.totalPnL,
              dailyReturn |-> state.dailyReturn ]]

\* executeTrade on an engine whose strategies share one balance: the cost is
\* debited from every strategy of the engine.
ExecuteTradeSharedBalance(ms, id, trade) ==
    LET state == ms[id]
        idx == FindPosition(state.positions, trade.direction)
        existingPosition == state.positions[idx]
        totalCost == RAdd(existingPosition.totalCost, trade.cost)
        totalQuantity == existingPosition.quantity + trade.quantity
        positions ==
            IF idx # 0
            THEN [state.positions EXCEPT ![idx] =
                     [ direction    |-> existingPosition.direction,
                       quantity     |-> totalQuantity,
                       averagePrice |-> RDiv(totalCost, Num(totalQuantity)),
                       totalCost    |-> totalCost ]]
            ELSE Append(state.positions,
                     [ direction    |-> trade.direction,
                       quantity     |-> trade.quantity,
                       averagePrice |-> trade.price,
                       totalCost    |-> trade.cost ])
    IN  [m \in DOMAIN ms |->
            IF m = id
            THEN [ balance     |-> RSub(state.balance, trade.cost),
                   positions   |-> positions,
                   trades      |-> Append(state.trades,
                                      [ direction |-> trade.direction, price |-> trade.price,
                                        quantity |-> trade.quantity, cost |-> trade.cost ]),
                   totalPnL    |-> state.totalPnL,
                   dailyReturn |-> state.dailyReturn ]
            ELSE [ms[m] EXCEPT !.balance = RSub(ms[m].balance, trade.cost)]]

\* executeTrade where averaging into an existing position keeps only the
\* cost of the new trade as the position's totalCost.
ExecuteTradeOverwritesCost(ms, id, trade) ==
    LET state == ms[id]
        tradeRecord == [ direction |-> trade.direction,
                         price     |-> trade.price,
                         quantity  |-> trade.quantity,
                         cost      |-> trade.cost ]
        idx == FindPosition(state.positions, trade.direction)
        existingPosition == state.positions[idx]
        totalCost == RAdd(existingPosition.totalCost, trade.cost)
        totalQuantity == existingPosition.quantity + trade.quantity
        positions ==
            IF idx # 0
            THEN [state.positions EXCEPT ![idx] =
                     [ direction    |-> existingPosition.direction,
                       quantity     |-> totalQuantity,
                       averagePrice |-> RDiv(totalCost, Num(totalQuantity)),
                       totalCost    |-> trade.cost ]]
            ELSE Append(state.positions,
                     [ direction    |-> trade.direction,
                       quantity     |-> trade.quantity,
                       averagePrice |-> trade.price,
                       totalCost    |-> trade.cost ])
    IN  [ms EXCEPT ![id] =
            [ balance     |-> RSub(state.balance, trade.cost),
              positions   |-> positions,
              trades      |-> Append(state.trades, tradeRecord),
              totalPnL    |-> state.totalPnL,
              dailyReturn |-> state.dailyReturn ]]

\* executeTrade: debit the balance, append the trade record, then average
\* into the existing position of that direction or push a new one.
ExecuteTrade(ms, id, trade) ==
    LET state == ms[id]
        tradeRecord == [ direction |-> trade.direction,
                         price     |-> trade.price,
                         quantity  |-> trade.quantity,
                         cost      |-> trade.cost ]
        idx == FindPosition(state.positions, trade.direction)
        existingPosition == state.positions[idx]
        totalCost == RAdd(existingPosition.totalCost, trade.cost)
        totalQuantity == existingPosition.quantity + trade.quantity
        positions ==
            IF idx # 0
            THEN [state.positions EXCEPT ![idx] =
                     [ direction    |-> existingPosition.direction,
                       quantity     |-> totalQuantity,
                       averagePrice |-> RDiv(totalCost, Num(totalQuantity)),
                       totalCost    |-> totalCost ]]
            ELSE Append(state.positions,
                     [ direction    |-> trade.direction,
                       quantity     |-> trade.quantity,
                       averagePrice |-> trade.price,
                       totalCost    |-> trade.cost ])
    IN  [ms EXCEPT ![id] =
            [ balance     |-> RSub(state.balance, trade.cost),
              positions   |-> positions,
              trades      |-> Append(state.trades, tradeRecord),
              totalPnL    |-> state.totalPnL,
              dailyReturn |-> state.dailyReturn ]]

\* Sum over positions[i..] of averagePrice * quantity (the exit value that
\* closePositions pays for each position).
RECURSIVE CloseExitValue(_, _)
CloseExitValue(positions, i) ==
    IF i > Len(positions) THEN Num(0)
    ELSE RAdd(RMul(positions[i].averagePrice, Num(positions[i].quantity)),
              CloseExitValue(positions, i + 1))

\* Sum over positions[i..] of totalCost.
RECURSIVE TotalCostOf(_, _)
TotalCostOf(positions, i) ==
    IF i > Len(positions) THEN Num(0)
    ELSE RAdd(positions[i].totalCost, TotalCostOf(positions, i + 1))

\* closePositions crediting the balance with the P&L, not the exit value.
ClosePositionsCreditsPnL(ms, id) ==
    LET state == ms[id]
        exitValue == CloseExitValue(state.positions, 1)
        totalPnL == RSub(exitValue, TotalCostOf(state.positions, 1))
    IN  [ms EXCEPT ![id] =
            [ balance     |-> RAdd(state.balance, totalPnL),
              positions   |-> << >>,
              trades      |-> state.trades,
              totalPnL    |-> RAdd(state.totalPnL, totalPnL),
              dailyReturn |-> state.dailyReturn ]]

\* closePositions (SELL): every position is paid averagePrice * quantity.
ClosePositions(ms, id) ==
    LET state == ms[id]
        exitValue == CloseExitValue(state.positions, 1)
        totalPnL == RSub(exitValue, TotalCostOf(state.positions, 1))
    IN  [ms EXCEPT ![id] =
            [ balance     |-> RAdd(state.balance, exitValue),
              positions   |-> << >>,
              trades      |-> state.trades,
              totalPnL    |-> RAdd(state.totalPnL, totalPnL),
              dailyReturn |-> state.dailyReturn ]]

\* decision.quantity || 1: an absent or zero quantity becomes 1.
QuantityOrOne(decision) ==
    IF "quantity" \in DOMAIN decision /\ decision.quantity # 0
    THEN decision.quantity ELSE 1

\* TryModel without the cost <= balance test: every BUY executes.
TryModelNoBalanceCheck(ms, id, marketData, decision) ==
    IF decision.action \in {"THROW", "HOLD"}
    THEN [models |-> ms, error |-> FALSE]
    ELSE IF decision.action = "SELL"
    THEN [models |-> ClosePositions(ms, id), error |-> FALSE]
    ELSE
        LET direction == IF decision.action = "BUY_YES" THEN "UP" ELSE "DOWN"
            price == IF direction = "UP" THEN marketData.yesPrice
                                         ELSE marketData.noPrice
            quantity == QuantityOrOne(decision)
            cost == RMul(price, Num(quantity))
        IN  [models |-> ExecuteTrade(ms, id,
                            [ direction |-> direction, price |-> price,
                              quantity |-> quantity, cost |-> cost ]),
             error |-> FALSE]

\* TryModel with cost < balance for cost <= balance.
TryModelStrictLess(ms, id, marketData, decision) ==
    IF decision.action \in {"THROW", "HOLD"}
    THEN [models |-> ms, error |-> FALSE]
    ELSE IF decision.action = "SELL"
    THEN [models |-> ClosePositions(ms, id), error |-> FALSE]
    ELSE
        LET direction == IF decision.action = "BUY_YES" THEN "UP" ELSE "DOWN"
            price == IF direction = "UP" THEN marketData.yesPrice
                                         ELSE marketData.noPrice
            quantity == QuantityOrOne(decision)
            cost == RMul(price, Num(quantity))
        IN  IF RLt(cost, ms[id].balance)
            THEN [models |-> ExecuteTrade(ms, id,
                                [ direction |-> direction, price |-> price,
                                  quantity |-> quantity, cost |-> cost ]),
                  error |-> FALSE]
            ELSE [models |-> ms, error |-> FALSE]

\* TryModel filling one contract of a BUY it cannot afford in full.
TryModelPartialFill(ms, id, marketData, decision) ==
    IF decision.action \in {"THROW", "HOLD"}
    THEN [models |-> ms, error |-> FALSE]
    ELSE IF decision.action = "SELL"
    THEN [models |-> ClosePositions(ms, id), error |-> FALSE]
    ELSE
        LET direction == IF decision.action = "BUY_YES" THEN "UP" ELSE "DOWN"
            price == IF direction = "UP" THEN marketData.yesPrice
                                         ELSE marketData.noPrice
            quantity == QuantityOrOne(decision)
            cost == RMul(price, Num(quantity))
        IN  IF RLe(cost, ms[id].balance)
            THEN [models |-> ExecuteTrade(ms, id,
                                [ direction |-> direction, price |-> price,
                                  quantity |-> quantity, cost |-> cost ]),
                  error |-> FALSE]
            ELSE IF RLe(price, ms[id].balance)
            THEN [models |-> ExecuteTrade(ms, id,
                                [ direction |-> direction, price |-> price,
                                  quantity |-> 1, cost |-> price ]),
                  error |-> FALSE]
            ELSE [models |-> ms, error |-> FALSE]

\* TryModel without the catch: the exception of makeDecision leaves the loop.
TryModelNoCatch(ms, id, marketData, decision) ==
    IF decision.action = "THROW"
    THEN [models |-> ms, error |-> TRUE]
    ELSE IF decision.action = "HOLD"
    THEN [models |-> ms, error |-> FALSE]
    ELSE IF decision.action = "SELL"
    THEN [models |-> ClosePositions(ms, id), error |-> FALSE]
    ELSE
        LET direction == IF decision.action = "BUY_YES" THEN "UP" ELSE "DOWN"
            price == IF direction = "UP" THEN marketData.yesPrice
                                         ELSE marketData.noPrice
            quantity == QuantityOrOne(decision)
            cost == RMul(price, Num(quantity))
        IN  IF RLe(cost, ms[id].balance)
            THEN [models |-> ExecuteTrade(ms, id,
                                [ direction |-> direction, price |-> price,
                                  quantity |-> quantity, cost |-> cost ]),
                  error |-> FALSE]
            ELSE [models |-> ms, error |-> FALSE]

\* The body of the try block of executeTradingCycle for one strategy, given
\* what its makeDecision did. error: an exception left the try/catch.
TryModel(ms, id, marketData, decision) ==
    IF decision.action = "THROW"
    THEN [models |-> ms, error |-> FALSE]
    ELSE IF decision.action = "HOLD"
    THEN [models |-> ms, error |-> FALSE]
    ELSE IF decision.action = "SELL"
    THEN [models |-> ClosePositions(ms, id), error |-> FALSE]
    ELSE
        LET direction == IF decision.action = "BUY_YES" THEN "UP" ELSE "DOWN"
            price == IF direction = "UP" THEN marketData.yesPrice
                                         ELSE marketData.noPrice
            quantity == QuantityOrOne(decision)
            cost == RMul(price, Num(quantity))
        IN  IF RLe(cost, ms[id].balance)
            THEN [models |-> ExecuteTrade(ms, id,
                                [ direction |-> direction, price |-> price,
                                  quantity |-> quantity, cost |-> cost ]),
                  error |-> FALSE]
            ELSE [models |-> ms, error |-> FALSE]

\* The for loop of executeTradingCycle over this.models.values() (insertion
\* order ord), from the i-th strategy on. threw: the call rejected, which
\* ends the loop at the strategy whose exception was not caught.
RECURSIVE ExecuteTradingCycleFrom(_, _, _, _, _)
ExecuteTradingCycleFrom(ms, ord, i, marketData, decide) ==
    IF i > Len(ord) THEN [models |-> ms, threw |-> FALSE]
    ELSE LET r == TryModel(ms, ord[i], marketData, decide[ord[i]])
         IN  IF r.error THEN [models |-> r.models, threw |-> TRUE]
             ELSE ExecuteTradingCycleFrom(r.models, ord, i + 1, marketData, decide)

ExecuteTradingCycle(ms, ord, marketData, decide) ==
    ExecuteTradingCycleFrom(ms, ord, 1, marketData, decide)

\* The settlement exit value when every contract is paid 100, as in a
\* winner-take-all settlement.
RECURSIVE SettleExitValueAtPar(_, _, _)
SettleExitValueAtPar(positions, marketData, i) ==
    IF i > Len(positions) THEN Num(0)
    ELSE RAdd(RMul(Num(100), Num(positions[i].quantity)),
              SettleExitValueAtPar(positions, marketData, i + 1))

\* Sum over positions[i..] of the settlement exit value currentPrice * quantity.
RECURSIVE SettleExitValue(_, _, _)
SettleExitValue(positions, marketData, i) ==
    IF i > Len(positions) THEN Num(0)
    ELSE LET currentPrice == IF positions[i].direction = "UP"
                             THEN marketData.yesPrice ELSE marketData.noPrice
         IN  RAdd(RMul(currentPrice, Num(positions[i].quantity)),
                  SettleExitValue(positions, marketData, i + 1))

\* The literal 100 of the dailyReturn line of settlePositions.
SettleBaseBalance == 100

\* settlePositions crediting the balance with the P&L, not the exit value.
SettleModelCreditsPnL(state, marketData) ==
    LET exitValue == SettleExitValue(state.positions, marketData, 1)
        totalPnL == RSub(exitValue, TotalCostOf(state.positions, 1))
        balance == RAdd(state.balance, totalPnL)
    IN  [ balance     |-> balance,
          positions   |-> << >>,
          trades      |-> state.trades,
          totalPnL    |-> RAdd(state.totalPnL, totalPnL),
          dailyReturn |-> RMul(RDiv(RSub(balance, Num(SettleBaseBalance)),
                                    Num(SettleBaseBalance)), Num(100)) ]

\* settlePositions that does not clear the positions.
SettleModelKeepsPositions(state, marketData) ==
    LET exitValue == SettleExitValue(state.positions, marketData, 1)
        totalPnL == RSub(exitValue, TotalCostOf(state.positions, 1))
        balance == RAdd(state.balance, exitValue)
    IN  [ balance     |-> balance,
          positions   |-> state.positions,
          trades      |-> state.trades,
          totalPnL    |-> RAdd(state.totalPnL, totalPnL),
          dailyReturn |-> RMul(RDiv(RSub(balance, Num(SettleBaseBalance)),
                                    Num(SettleBaseBalance)), Num(100)) ]

\* settlePositions that empties the trade log together with the positions.
SettleModelDropsTrades(state, marketData) ==
    LET exitValue == SettleExitValue(state.positions, marketData, 1)
        totalPnL == RSub(exitValue, TotalCostOf(state.positions, 1))
        balance == RAdd(state.balance, exitValue)
    IN  [ balance     |-> balance,
          positions   |-> << >>,
          trades      |-> << >>,
          totalPnL    |-> RAdd(state.totalPnL, totalPnL),
          dailyReturn |-> RMul(RDiv(RSub(balance, Num(SettleBaseBalance)),
                                    Num(SettleBaseBalance)), Num(100)) ]

\* settlePositions for one strategy.
SettleModel(state, marketData) ==
    LET exitValue == SettleExitValue(state.positions, marketData, 1)
        totalPnL == RSub(exitValue, TotalCostOf(state.positions, 1))
        balance == RAdd(state.balance, exitValue)
    IN  [ balance     |-> balance,
          positions   |-> << >>,
          trades      |-> state.trades,
          totalPnL    |-> RAdd(state.totalPnL, totalPnL),
          dailyReturn |-> RMul(RDiv(RSub(balance, Num(SettleBaseBalance)),
                                    Num(SettleBaseBalance)), Num(100)) ]

\* settlePositions: every strategy of the engine is settled.
SettlePositions(ms, marketData) ==
    [id \in DOMAIN ms |-> SettleModel(ms[id], marketData)]

\* The literal 100 that resetAllModels and resetModel give as balance.
ResetBalance == 100

\* resetModel (src/lib/models/index.ts): the state a reset puts in place.
ResetModel(state) ==
    [ balance     |-> Num(ResetBalance),
      positions   |-> << >>,
      trades      |-> << >>,
      totalPnL    |-> Num(0),
      dailyReturn |-> Num(0) ]

\* resetAllModels: every entry of the map is replaced, under the same id.
ResetAllModels(ms) ==
    [id \in DOMAIN ms |-> ResetModel(ms[id])]

\* ------------------------------------------------------------------------
\* runBacktest (src/unnamed/part_003)
\*
\* Time is counted in minutes. historicalData is a sequence of bars, one
\* every BarSpacing minutes; the code's 0-based index j is hist[j + 1].
\* Trade.timestamp is new Date() at the moment executeTrade runs, that is
\* the wall clock of the backtest run (now), kept beside the trade list in
\* tradeTimes. The 1-minute history handed to makeDecision, the Sharpe ratio
\* and the per-day returns are not modelled.
\* ------------------------------------------------------------------------

\* historicalData.length < 20: the shortest series runBacktest accepts.
MinBars == 20

\* batchSize: the first bar index at which a decision is made.
BatchSize == 20

\* Minutes between two bars of the series.
BarSpacing == 15

\* A trade is matched to a bar less than 900000 ms (15 minutes) from it.
MatchWindow == 15

\* What the winning side is settled at, and what a winning contract pays.
SettleWin == 100

\* threshold = 0.01 (percent) of the retrospective classification.
Threshold == <<1, 100>>

\* currentPrice of the bars of the series.
BasePrice == 50000

PriceLevels == {50000, 50005, 50010}

\* Number of bars after the first MinBars bars of a series that is run for
\* one strategy, and of a series that is run for a list of strategies.
MaxTail == 2

MaxTailAll == 1

\* Lengths of the series that are too short.
ShortLens == {15, 19}

\* The bar with 0-based index j and the given price; its quotes follow it.
MkBar(j, price) ==
    [ timestamp    |-> BarSpacing * j,
      currentPrice |-> price,
      yesPrice     |-> IF price = 50000 THEN Num(45)
                       ELSE IF price = 50005 THEN Num(50) ELSE Num(60),
      noPrice      |-> IF price = 50000 THEN Num(55)
                       ELSE IF price = 50005 THEN Num(50) ELSE Num(40) ]

\* n bars at BasePrice followed by bars at the prices of tail.
MkSeries(n, tail) ==
    [j \in 1..(n + Len(tail)) |->
        MkBar(j - 1, IF j <= n THEN BasePrice ELSE tail[j - n])]

\* Prices after the first MinBars bars of a longer series: a rise and then a
\* fall back, so that a run can gain on one bar and lose on the next.
LongTails == { << 50000, 50010, 50000 >> }

\* Which bars of a series carry 1-minute candles: all of them, or the bars
\* with an odd index.
SeriesCandles == {"all", "odd"}

\* The 1-minute candles of the bar with index j: their times lie inside the
\* bar's period, the first close is half a unit under the bar's price.
CandlesAt(j, price) ==
    << [ timestamp |-> BarSpacing * j + 5,  close |-> Rat(2 * price - 1, 2) ],
       [ timestamp |-> BarSpacing * j + 10, close |-> Num(price) ] >>

\* The series with minuteCandles attached to its bars, as
\* fetch1MinuteMarketData attaches them.
WithCandles(series, mode) ==
    [j \in DOMAIN series |->
        IF mode = "all" \/ (j - 1) % 2 = 1
        THEN [ timestamp     |-> series[j].timestamp,
               currentPrice  |-> series[j].currentPrice,
               yesPrice      |-> series[j].yesPrice,
               noPrice       |-> series[j].noPrice,
               minuteCandles |-> CandlesAt(j - 1, series[j].currentPrice) ]
        ELSE series[j]]

\* The series handed to runBacktest together with a list of len strategies.
SeriesFor(len) ==
    { MkSeries(n, << >>) : n \in ShortLens }
    \cup { MkSeries(MinBars, tail) :
             tail \in UNION { [1..k -> PriceLevels] :
                                k \in 0..(IF len = 1 THEN MaxTail ELSE MaxTailAll) } }
    \cup { MkSeries(MinBars, tail) : tail \in IF len = 1 THEN LongTails ELSE {} }
    \cup { WithCandles(MkSeries(MinBars, tail), mode) :
             tail \in (IF len = 1 THEN LongTails ELSE {}), mode \in SeriesCandles }

\* The lists of strategies handed to runBacktest.
ModelLists ==
    { <<"random">>, <<"momentum">>, <<"random", "momentum">>, <<"momentum", "random">> }

\* The wall clock of a run, against the series: at the first decision bar,
\* within a bar spacing after the last bar, a bar spacing or more after it.
Clocks(hist) ==
    { BarSpacing * BatchSize,
      hist[Len(hist)].timestamp + 7,
      hist[Len(hist)].timestamp + BarSpacing }

\* (priceChange / startPrice) * 100
PriceChangePercent(startPrice, endPrice) ==
    RMul(RDiv(Num(endPrice - startPrice), Num(startPrice)), Num(100))

\* d.minuteCandles && d.minuteCandles.length > 0
HasCandles(d) == "minuteCandles" \in DOMAIN d /\ Len(d.minuteCandles) > 0

\* has1MinuteData, the use1MinuteData argument the backtest route passes.
Has1MinuteData(hist) == \E j \in DOMAIN hist : HasCandles(hist[j])

\* Math.round of a positive number: the nearest integer, halves upwards.
MathRound(x) == (2 * x[1] + x[2]) \div (2 * x[2])

\* historicalData.slice(Math.max(0, i - batchSize), i + 1): the window with
\* the current bar in it.
HistoryIncludesCurrent(hist, i) ==
    SubSeq(hist, (IF i - BatchSize < 0 THEN 0 ELSE i - BatchSize) + 1, i + 1)

\* history = historicalData.slice(Math.max(0, i - batchSize), i)
History(hist, i) ==
    SubSeq(hist, (IF i - BatchSize < 0 THEN 0 ELSE i - BatchSize) + 1, i)

\* The data point pushed for a 1-minute candle onto minuteHistory; lastPrices
\* holds the currentPrice of the last point of minuteHistory, if there is one.
CandlePoint(candle, lastPrices) ==
    LET priceChange ==
            IF Len(lastPrices) > 0
            THEN LET last == lastPrices[1]
                 IN  RMul(RDiv(RSub(candle.close, Num(last)), Num(last)), Num(100))
            ELSE Num(0)
        raw == RAdd(Num(50), RMul(priceChange, Num(10)))
        capped == IF RLt(raw, Num(99)) THEN raw ELSE Num(99)
        yesPrice == IF RLt(Num(1), capped) THEN capped ELSE Num(1)
    IN  [ timestamp     |-> candle.timestamp,
          currentPrice  |-> MathRound(candle.close),
          yesPrice      |-> Rat(MathRound(RMul(yesPrice, Num(100))), 100),
          noPrice       |-> Rat(MathRound(RMul(RSub(Num(100), yesPrice), Num(100))), 100),
          minuteCandles |-> << candle >> ]

\* What the loop over the bars j..i-1 of the window pushes from, in order:
\* each candle of a bar that has candles, the bar itself otherwise.
RECURSIVE PushedItems(_, _, _)
PushedItems(hist, j, i) ==
    IF j >= i THEN << >>
    ELSE LET period == hist[j + 1]
         IN  (IF HasCandles(period)
              THEN [k \in DOMAIN period.minuteCandles |->
                       [ isCandle |-> TRUE, candle |-> period.minuteCandles[k] ]]
              ELSE << [ isCandle |-> FALSE, period |-> period ] >>)
             \o PushedItems(hist, j + 1, i)

\* minuteHistory after the loop over the bars j..i-1: the point of each
\* candle is computed from the currentPrice of the point pushed before it.
MinuteHistoryFrom(hist, j, i) ==
    LET items == PushedItems(hist, j, i)
        priceOf(x) == IF x.isCandle THEN MathRound(x.candle.close)
                                    ELSE x.period.currentPrice
    IN  [k \in DOMAIN items |->
            IF items[k].isCandle
            THEN CandlePoint(items[k].candle,
                             IF k = 1 THEN << >> ELSE << priceOf(items[k - 1]) >>)
            ELSE items[k].period]

\* detailedHistory of the bar with index i: the 1-minute points of the
\* window when the bar carries candles, the window itself otherwise.
DetailedHistory(hist, i, use1MinuteData) ==
    IF use1MinuteData /\ HasCandles(hist[i + 1])
    THEN MinuteHistoryFrom(hist, IF i - BatchSize < 0 THEN 0 ELSE i - BatchSize, i)
    ELSE History(hist, i)

\* The state of runBacktest before it is called.
NoBacktest == [pc |-> "idle"]

\* A call runBacktest(list, hist, initialBalance) at wall-clock time now, on
\* templates that createAllModels() returned.
BacktestCall(list, hist, balance, now) ==
    [ pc             |-> "start",
      list           |-> list,
      hist           |-> hist,
      initialBalance |-> balance,
      now            |-> now,
      use1MinuteData |-> Has1MinuteData(hist),
      templates      |-> [id \in Ids(list) |-> NewModelState(DefaultBalance)],
      aliased        |-> FALSE,
      error          |-> "none",
      calls          |-> 0,
      m              |-> 0,
      i              |-> 0,
      engine         |-> << >>,
      tradeTimes     |-> << >>,
      tradeBars      |-> << >>,
      balanceHistory |-> << >>,
      peakBalance    |-> Num(0),
      maxDrawdown    |-> Num(0),
      maxDrawdownPercent |-> Num(0),
      step           |-> [i |-> -1],
      results        |-> << >> ]

\* The `model` being the template itself, its balance set to the seed.
FreshModelSharesState(template, balance) ==
    [ state |-> [template EXCEPT !.balance = Num(balance)], aliased |-> TRUE ]

\* The `model` built for a template: a copy of the template with a fresh
\* state object. aliased: the state object is the template's own.
FreshModel(template, balance) ==
    [ state |-> NewModelState(balance), aliased |-> FALSE ]

\* The head of the loop over the strategies for the m-th strategy of the
\* list: a fresh model, a new engine on it, and the run's bookkeeping; past
\* the end of the list the function returns.
StartModel(b, m) ==
    IF m > Len(b.list)
    THEN [b EXCEPT !.pc = "done", !.m = m]
    ELSE LET id == b.list[m]
             model == FreshModel(b.templates[id], b.initialBalance)
         IN  [b EXCEPT
                !.pc = "run",
                !.m = m,
                !.i = BatchSize,
                !.aliased = model.aliased,
                !.engine = [x \in {id} |-> model.state],
                !.tradeTimes = << >>,
                !.tradeBars = << >>,
                !.balanceHistory =
                    << [ timestamp |-> b.hist[1].timestamp,
                         balance   |-> Num(b.initialBalance) ] >>,
                !.peakBalance = Num(b.initialBalance),
                !.maxDrawdown = Num(0),
                !.maxDrawdownPercent = Num(0),
                !.step = [i |-> -1]]

\* runBacktest without its length test.
BeginBacktestNoLengthTest(b) == StartModel(b, 1)

\* The entry of runBacktest: the length test, then the first strategy.
BeginBacktest(b) ==
    IF Len(b.hist) < MinBars
    THEN [b EXCEPT !.pc = "failed", !.error = "insufficient"]
    ELSE StartModel(b, 1)

\* Settlement at the quotes of the next bar, without forcing the winner.
SettlementDataAtNextQuotes(hist, i) ==
    IF i < Len(hist) - 1 THEN hist[i + 2] ELSE hist[i + 1]

\* Settlement where a flat movement pays the UP side.
SettlementDataFlatPaysUp(hist, i) ==
    IF i < Len(hist) - 1
    THEN LET priceChangePercent ==
                 PriceChangePercent(hist[i + 1].currentPrice, hist[i + 2].currentPrice)
         IN  [ hist[i + 2] EXCEPT
                 !.yesPrice = IF RLe(Num(0), priceChangePercent)
                              THEN Num(SettleWin) ELSE Num(0),
                 !.noPrice  = IF RLt(priceChangePercent, Num(0))
                              THEN Num(SettleWin) ELSE Num(0) ]
    ELSE hist[i + 1]

\* Settlement where the last bar too is forced, as a flat movement.
SettlementDataForcesLast(hist, i) ==
    LET periodStart == hist[i + 1]
        periodEnd == IF i < Len(hist) - 1 THEN hist[i + 2] ELSE hist[i + 1]
        priceChangePercent ==
            PriceChangePercent(periodStart.currentPrice, periodEnd.currentPrice)
    IN  [ periodEnd EXCEPT
            !.yesPrice = IF RLt(Num(0), priceChangePercent)
                         THEN Num(SettleWin) ELSE Num(0),
            !.noPrice  = IF RLe(priceChangePercent, Num(0))
                         THEN Num(SettleWin) ELSE Num(0) ]

\* The settlementData of the bar with index i: the next bar with the winner
\* forced to SettleWin and the loser to 0, or the last bar as it is.
SettlementData(hist, i) ==
    IF i < Len(hist) - 1
    THEN LET periodStart == hist[i + 1]
             periodEnd == hist[i + 2]
             priceChangePercent ==
                 PriceChangePercent(periodStart.currentPrice, periodEnd.currentPrice)
         IN  [ periodEnd EXCEPT
                 !.yesPrice = IF RLt(Num(0), priceChangePercent)
                              THEN Num(SettleWin) ELSE Num(0),
                 !.noPrice  = IF RLe(priceChangePercent, Num(0))
                              THEN Num(SettleWin) ELSE Num(0) ]
    ELSE hist[i + 1]

\* The template state after the engine has worked on its model: the engine
\* writes to the template only if it was handed the template's state object.
SyncTemplates(b, engine) ==
    IF b.aliased
    THEN [id \in DOMAIN b.templates |->
             IF id \in DOMAIN engine THEN engine[id] ELSE b.templates[id]]
    ELSE b.templates

\* The loop body with the peak left at the seed: the drawdown of a bar is
\* measured from initialBalance.
BacktestBarPeakFromSeed(b, decision) ==
    LET id == b.list[b.m]
        periodStart == b.hist[b.i + 1]
        cycle == ExecuteTradingCycle(b.engine, <<id>>, periodStart,
                                     [x \in {id} |-> decision])
        traded == Len(cycle.models[id].trades) > Len(b.engine[id].trades)
        settlementData == SettlementData(b.hist, b.i)
        engine == SettlePositions(cycle.models, settlementData)
        currentBalance == engine[id].balance
        peakBalance == b.peakBalance
        drawdown == RSub(peakBalance, currentBalance)
        drawdownPercent == RMul(RDiv(drawdown, peakBalance), Num(100))
    IN  IF cycle.threw
        THEN [b EXCEPT !.pc = "failed", !.error = "exception",
                       !.calls = b.calls + 1,
                       !.templates = SyncTemplates(b, cycle.models)]
        ELSE [b EXCEPT
                !.calls = b.calls + 1,
                !.engine = engine,
                !.templates = SyncTemplates(b, engine),
                !.tradeTimes = IF traded THEN Append(b.tradeTimes, b.now)
                                         ELSE b.tradeTimes,
                !.tradeBars = IF traded THEN Append(b.tradeBars, b.i)
                                        ELSE b.tradeBars,
                !.balanceHistory =
                    Append(b.balanceHistory,
                           [ timestamp |-> periodStart.timestamp,
                             balance   |-> currentBalance ]),
                !.peakBalance = peakBalance,
                !.maxDrawdown = IF RLt(b.maxDrawdown, drawdown)
                                THEN drawdown ELSE b.maxDrawdown,
                !.maxDrawdownPercent = IF RLt(b.maxDrawdownPercent, drawdownPercent)
                                       THEN drawdownPercent ELSE b.maxDrawdownPercent,
                !.step = [ i          |-> b.i,
                           decisionData |-> periodStart,
                           history    |-> DetailedHistory(b.hist, b.i, b.use1MinuteData),
                           before     |-> b.engine[id],
                           afterCycle |-> cycle.models[id],
                           settlement |-> settlementData,
                           after      |-> engine[id] ],
                !.i = b.i + 1]

\* One iteration of the loop over the bars, for the bar with index b.i:
\* decision cycle, settlement, balance history and drawdown.
BacktestBar(b, decision) ==
    LET id == b.list[b.m]
        periodStart == b.hist[b.i + 1]
        cycle == ExecuteTradingCycle(b.engine, <<id>>, periodStart,
                                     [x \in {id} |-> decision])
        traded == Len(cycle.models[id].trades) > Len(b.engine[id].trades)
        settlementData == SettlementData(b.hist, b.i)
        engine == SettlePositions(cycle.models, settlementData)
        currentBalance == engine[id].balance
        peakBalance == IF RLt(b.peakBalance, currentBalance)
                       THEN currentBalance ELSE b.peakBalance
        drawdown == RSub(peakBalance, currentBalance)
        drawdownPercent == RMul(RDiv(drawdown, peakBalance), Num(100))
    IN  IF cycle.threw
        THEN [b EXCEPT !.pc = "failed", !.error = "exception",
                       !.calls = b.calls + 1,
                       !.templates = SyncTemplates(b, cycle.models)]
        ELSE [b EXCEPT
                !.calls = b.calls + 1,
                !.engine = engine,
                !.templates = SyncTemplates(b, engine),
                !.tradeTimes = IF traded THEN Append(b.tradeTimes, b.now)
                                         ELSE b.tradeTimes,
                !.tradeBars = IF traded THEN Append(b.tradeBars, b.i)
                                        ELSE b.tradeBars,
                !.balanceHistory =
                    Append(b.balanceHistory,
                           [ timestamp |-> periodStart.timestamp,
                             balance   |-> currentBalance ]),
                !.peakBalance = peakBalance,
                !.maxDrawdown = IF RLt(b.maxDrawdown, drawdown)
                                THEN drawdown ELSE b.maxDrawdown,
                !.maxDrawdownPercent = IF RLt(b.maxDrawdownPercent, drawdownPercent)
                                       THEN drawdownPercent ELSE b.maxDrawdownPercent,
                !.step = [ i          |-> b.i,
                           decisionData |-> periodStart,
                           history    |-> DetailedHistory(b.hist, b.i, b.use1MinuteData),
                           before     |-> b.engine[id],
                           afterCycle |-> cycle.models[id],
                           settlement |-> settlementData,
                           after      |-> engine[id] ],
                !.i = b.i + 1]

\* No call of runBacktest for a strategy alone.
NoSolo ==
    [ run |-> NoBacktest, last |-> NoBacktest,
      rerun |-> NoBacktest, relast |-> NoBacktest ]

\* runBacktest called, with the arguments of b, on a list holding only the
\* strategy that b is running, up to the start of its loop over the bars.
SoloOf(b) ==
    IF b.pc = "run"
    THEN BeginBacktest(BacktestCall(<< b.list[b.m] >>, b.hist, b.initialBalance, b.now))
    ELSE NoBacktest

\* The same call as SoloOf(b), made a bar spacing later on the wall clock.
RerunOf(b) ==
    IF b.pc = "run"
    THEN BeginBacktest(BacktestCall(<< b.list[b.m] >>, b.hist, b.initialBalance,
                                    b.now + BarSpacing))
    ELSE NoBacktest

\* What a winning contract pays in the classification: (100 - price).
WinPayout == 100

\* historicalData.findIndex: the 0-based index of the first bar less than
\* MatchWindow from the time t, -1 when there is none.
RECURSIVE FindIndexFrom(_, _, _)
FindIndexFrom(hist, t, j) ==
    IF j >= Len(hist) THEN -1
    ELSE IF Abs(hist[j + 1].timestamp - t) < MatchWindow THEN j
    ELSE FindIndexFrom(hist, t, j + 1)

FindIndex(hist, t) == FindIndexFrom(hist, t, 0)

\* isWin of the classification loop for a trade stamped t; a trade whose bar
\* is not found, or is the last bar, takes the else branch (a loss).
TradeIsWin(hist, trade, t) ==
    LET tradeIndex == FindIndex(hist, t)
    IN  IF tradeIndex >= 0 /\ tradeIndex < Len(hist) - 1
        THEN LET priceChangePercent ==
                     PriceChangePercent(hist[tradeIndex + 1].currentPrice,
                                        hist[tradeIndex + 2].currentPrice)
             IN  IF trade.direction = "UP"
                 THEN RLt(Threshold, priceChangePercent)
                 ELSE RLt(priceChangePercent, RSub(Num(0), Threshold))
        ELSE FALSE

\* The counters of the classification before the loop.
NoOutcomes ==
    [ winningTrades |-> 0, losingTrades |-> 0,
      totalWins |-> Num(0), totalLosses |-> Num(0), outcomes |-> << >> ]

\* The classification loop without its else branch: a trade whose bar is not
\* found, or is the last bar, is not counted.
RECURSIVE ClassifyTradesSkipsUnmatched(_, _, _, _, _)
ClassifyTradesSkipsUnmatched(hist, trades, times, k, acc) ==
    IF k > Len(trades) THEN acc
    ELSE LET trade == trades[k]
             tradeIndex == FindIndex(hist, times[k])
         IN  IF ~(tradeIndex >= 0 /\ tradeIndex < Len(hist) - 1)
             THEN ClassifyTradesSkipsUnmatched(hist, trades, times, k + 1,
                     [acc EXCEPT !.outcomes = Append(@, "none")])
             ELSE IF TradeIsWin(hist, trade, times[k])
             THEN ClassifyTradesSkipsUnmatched(hist, trades, times, k + 1,
                     [acc EXCEPT
                        !.winningTrades = @ + 1,
                        !.totalWins = RAdd(@, RMul(RSub(Num(WinPayout), trade.price),
                                                   Num(trade.quantity))),
                        !.outcomes = Append(@, "win")])
             ELSE ClassifyTradesSkipsUnmatched(hist, trades, times, k + 1,
                     [acc EXCEPT
                        !.losingTrades = @ + 1,
                        !.totalLosses = RAdd(@, trade.cost),
                        !.outcomes = Append(@, "loss")])

\* The classification loop from the k-th trade on; outcomes lists, trade by
\* trade, the branch that counted it.
RECURSIVE ClassifyTrades(_, _, _, _, _)
ClassifyTrades(hist, trades, times, k, acc) ==
    IF k > Len(trades) THEN acc
    ELSE LET trade == trades[k]
         IN  IF TradeIsWin(hist, trade, times[k])
             THEN ClassifyTrades(hist, trades, times, k + 1,
                     [acc EXCEPT
                        !.winningTrades = @ + 1,
                        !.totalWins = RAdd(@, RMul(RSub(Num(WinPayout), trade.price),
                                                   Num(trade.quantity))),
                        !.outcomes = Append(@, "win")])
             ELSE ClassifyTrades(hist, trades, times, k + 1,
                     [acc EXCEPT
                        !.losingTrades = @ + 1,
                        !.totalLosses = RAdd(@, trade.cost),
                        !.outcomes = Append(@, "loss")])

\* Infinity, the profit factor of a run with wins and no losses.
Infinity == <<1, 0>>

\* The result with totalReturn measured from the default seed of 100.
ResultOfReturnFromDefault(b) ==
    LET id == b.list[b.m]
        engine == SettlePositions(b.engine, b.hist[Len(b.hist)])
        finalModel == engine[id]
        finalBalance == finalModel.balance
        totalReturn == RSub(finalBalance, Num(DefaultBalance))
        trades == finalModel.trades
        c == ClassifyTrades(b.hist, trades, b.tradeTimes, 1, NoOutcomes)
    IN  [ modelId            |-> id,
          startingBalance    |-> Num(b.initialBalance),
          endingBalance      |-> finalBalance,
          totalReturn        |-> totalReturn,
          totalReturnPercent |-> RMul(RDiv(totalReturn, Num(b.initialBalance)), Num(100)),
          totalTrades        |-> Len(trades),
          winningTrades      |-> c.winningTrades,
          losingTrades       |-> c.losingTrades,
          winRate            |-> IF Len(trades) > 0
                                 THEN RMul(RDiv(Num(c.winningTrades), Num(Len(trades))),
                                           Num(100))
                                 ELSE Num(0),
          totalPnL           |-> finalModel.totalPnL,
          averageWin         |-> IF c.winningTrades > 0
                                 THEN RDiv(c.totalWins, Num(c.winningTrades)) ELSE Num(0),
          averageLoss        |-> IF c.losingTrades > 0
                                 THEN RDiv(c.totalLosses, Num(c.losingTrades)) ELSE Num(0),
          profitFactor       |-> IF RLt(Num(0), c.totalLosses)
                                 THEN RDiv(c.totalWins, c.totalLosses)
                                 ELSE IF RLt(Num(0), c.totalWins) THEN Infinity ELSE Num(0),
          maxDrawdown        |-> b.maxDrawdown,
          maxDrawdownPercent |-> b.maxDrawdownPercent,
          trades             |-> trades,
          balanceHistory     |-> b.balanceHistory,
          tradeTimes         |-> b.tradeTimes,
          tradeBars          |-> b.tradeBars,
          outcomes           |-> c.outcomes,
          totalWins          |-> c.totalWins,
          totalLosses        |-> c.totalLosses ]

\* The BacktestResult of the strategy whose bars are done: final settlement
\* on the last bar, classification of its trades, summary figures.
\* tradeTimes, tradeBars, outcomes, totalWins and totalLosses are not fields
\* of the result; they are kept with it for the properties.
ResultOf(b) ==
    LET id == b.list[b.m]
        engine == SettlePositions(b.engine, b.hist[Len(b.hist)])
        finalModel == engine[id]
        finalBalance == finalModel.balance
        totalReturn == RSub(finalBalance, Num(b.initialBalance))
        trades == finalModel.trades
        c == ClassifyTrades(b.hist, trades, b.tradeTimes, 1, NoOutcomes)
    IN  [ modelId            |-> id,
          startingBalance    |-> Num(b.initialBalance),
          endingBalance      |-> finalBalance,
          totalReturn        |-> totalReturn,
          totalReturnPercent |-> RMul(RDiv(totalReturn, Num(b.initialBalance)), Num(100)),
          totalTrades        |-> Len(trades),
          winningTrades      |-> c.winningTrades,
          losingTrades       |-> c.losingTrades,
          winRate            |-> IF Len(trades) > 0
                                 THEN RMul(RDiv(Num(c.winningTrades), Num(Len(trades))),
                                           Num(100))
                                 ELSE Num(0),
          totalPnL           |-> finalModel.totalPnL,
          averageWin         |-> IF c.winningTrades > 0
                                 THEN RDiv(c.totalWins, Num(c.winningTrades)) ELSE Num(0),
          averageLoss        |-> IF c.losingTrades > 0
                                 THEN RDiv(c.totalLosses, Num(c.losingTrades)) ELSE Num(0),
          profitFactor       |-> IF RLt(Num(0), c.totalLosses)
                                 THEN RDiv(c.totalWins, c.totalLosses)
                                 ELSE IF RLt(Num(0), c.totalWins) THEN Infinity ELSE Num(0),
          maxDrawdown        |-> b.maxDrawdown,
          maxDrawdownPercent |-> b.maxDrawdownPercent,
          trades             |-> trades,
          balanceHistory     |-> b.balanceHistory,
          tradeTimes         |-> b.tradeTimes,
          tradeBars          |-> b.tradeBars,
          outcomes           |-> c.outcomes,
          totalWins          |-> c.totalWins,
          totalLosses        |-> c.totalLosses ]

\* The end of the loop body over the strategies: the result is pushed and the
\* next strategy starts.
FinishModel(b) ==
    LET engine == SettlePositions(b.engine, b.hist[Len(b.hist)])
    IN  StartModel([b EXCEPT !.results = Append(b.results, ResultOf(b)),
                             !.engine = engine,
                             !.templates = SyncTemplates(b, engine)],
                   b.m + 1)

\* ------------------------------------------------------------------------
\* The strategies (src/lib/models)
\* ------------------------------------------------------------------------
\* A bar, as a strategy reads it, is [currentPrice, minuteCandles], where
\* minuteCandles is the sequence of the closes of its 1-minute candles,
\* empty when the bar has none.

Hold == [action |-> "HOLD"]

BuyYes5 == [action |-> "BUY_YES", quantity |-> 5]

BuyNo5 == [action |-> "BUY_NO", quantity |-> 5]

Min(a, b) == IF a < b THEN a ELSE b

RAbs(a) == <<Abs(a[1]), a[2]>>

\* s.slice(-k)
LastN(s, k) == SubSeq(s, Len(s) - Min(k, Len(s)) + 1, Len(s))

\* history.map(d => d.currentPrice)
PricesOf(history) == [j \in DOMAIN history |-> history[j].currentPrice]

\* What the loop over history.slice(-5) pushes for the bars h[i..]: the
\* closes of the candles of a bar, or its currentPrice when it has none.
RECURSIVE PushCandles(_, _)
PushCandles(h, i) ==
    IF i > Len(h) THEN << >>
    ELSE (IF Len(h[i].minuteCandles) > 0 THEN h[i].minuteCandles
                                         ELSE << h[i].currentPrice >>)
         \o PushCandles(h, i + 1)

\* The price points of the sub-bar path: the closes of the current bar
\* first, then what the last 5 bars of the history push.
CandlePrices(marketData, history) ==
    marketData.minuteCandles \o PushCandles(LastN(history, 5), 1)

\* priceData of the Momentum strategy once it is assembled.
MomentumPriceData(marketData, history) ==
    IF Len(marketData.minuteCandles) > 0
    THEN CandlePrices(marketData, history)
    ELSE Append(LastN(PricesOf(history), 10), marketData.currentPrice)

\* The decision of Momentum from the assembled priceData.
MomentumSignal(priceData) ==
    LET lookback == Min(10, Len(priceData) \div 2)
        recent == LastN(priceData, lookback)
        priceChange == recent[Len(recent)] - recent[1]
        momentum == Rat(priceChange, recent[1])
        threshold == IF Len(priceData) > 15 THEN Rat(2, 1000) ELSE Rat(1, 100)
    IN  IF RLt(threshold, RAbs(momentum))
        THEN IF RLt(Num(0), momentum) THEN BuyYes5 ELSE BuyNo5
        ELSE Hold

\* Momentum without the test on the number of price points.
MomentumDecisionNoMinimum(marketData, history) ==
    IF Len(marketData.minuteCandles) = 0 /\ Len(history) < 3 THEN Hold
    ELSE MomentumSignal(MomentumPriceData(marketData, history))

\* Momentum comparing the price change, not the relative change, with the
\* threshold.
MomentumDecisionAbsoluteChange(marketData, history) ==
    IF Len(marketData.minuteCandles) = 0 /\ Len(history) < 3 THEN Hold
    ELSE LET priceData == MomentumPriceData(marketData, history)
             recent == LastN(priceData, Min(10, Len(priceData) \div 2))
         IN  IF Len(priceData) < 5 THEN Hold
             ELSE IF recent[Len(recent)] - recent[1] > 0 THEN BuyYes5
             ELSE IF recent[Len(recent)] - recent[1] < 0 THEN BuyNo5
             ELSE Hold

\* makeDecision of createMomentumModel()
MomentumDecision(marketData, history) ==
    IF Len(marketData.minuteCandles) = 0 /\ Len(history) < 3 THEN Hold
    ELSE LET priceData == MomentumPriceData(marketData, history)
         IN  IF Len(priceData) < 5 THEN Hold
             ELSE MomentumSignal(priceData)

\* Sum of the rises (sign = 1) or of the falls (sign = -1) between
\* consecutive prices of prices[i..].
RECURSIVE SumChanges(_, _, _)
SumChanges(prices, i, sign) ==
    IF i >= Len(prices) THEN 0
    ELSE LET c == prices[i + 1] - prices[i]
         IN  (IF sign * c > 0 THEN sign * c ELSE 0) + SumChanges(prices, i + 1, sign)

\* period of calculateRSI
RSIPeriod == 14

\* calculateRSI averaging the gains and losses into an RSI of 50 when there
\* is no loss.
CalculateRSINoLossIsNeutral(prices) ==
    IF Len(prices) < RSIPeriod + 1 THEN Num(50)
    ELSE LET avgGain == Rat(SumChanges(prices, 1, 1), RSIPeriod)
             avgLoss == Rat(SumChanges(prices, 1, -1), RSIPeriod)
         IN  IF avgLoss = Num(0) THEN Num(50)
             ELSE RSub(Num(100), RDiv(Num(100), RAdd(Num(1), RDiv(avgGain, avgLoss))))

\* calculateRSI(prices)
CalculateRSI(prices) ==
    IF Len(prices) < RSIPeriod + 1 THEN Num(50)
    ELSE LET avgGain == Rat(SumChanges(prices, 1, 1), RSIPeriod)
             avgLoss == Rat(SumChanges(prices, 1, -1), RSIPeriod)
         IN  IF avgLoss = Num(0) THEN Num(100)
             ELSE RSub(Num(100), RDiv(Num(100), RAdd(Num(1), RDiv(avgGain, avgLoss))))

\* prices of the RSI strategy once it is assembled.
RSIPrices(marketData, history) ==
    IF Len(marketData.minuteCandles) > 0
    THEN CandlePrices(marketData, history)
    ELSE Append(PricesOf(history), marketData.currentPrice)

\* makeDecision of createRSIModel()
RSIDecision(marketData, history) ==
    IF Len(marketData.minuteCandles) = 0 /\ Len(history) < 15 THEN Hold
    ELSE LET prices == RSIPrices(marketData, history)
         IN  IF Len(prices) < 15 THEN Hold
             ELSE LET rsi == CalculateRSI(prices)
                  IN  IF RLt(Num(70), rsi) THEN BuyNo5
                      ELSE IF RLt(rsi, Num(30)) THEN BuyYes5
                      ELSE Hold

RECURSIVE SumInts(_, _)
SumInts(xs, i) == IF i > Len(xs) THEN 0 ELSE xs[i] + SumInts(xs, i + 1)

\* Mean Reversion with thresholds that include the bound.
MeanReversionDecisionInclusive(marketData, history) ==
    IF Len(history) < 10 THEN Hold
    ELSE LET avg == Rat(SumInts(PricesOf(history), 1), Len(history))
             deviation == RDiv(RSub(Num(marketData.currentPrice), avg), avg)
         IN  IF RLe(Rat(2, 100), deviation) THEN BuyNo5
             ELSE IF RLe(deviation, Rat(-2, 100)) THEN BuyYes5
             ELSE Hold

\* makeDecision of createMeanReversionModel()
MeanReversionDecision(marketData, history) ==
    IF Len(history) < 10 THEN Hold
    ELSE LET avg == Rat(SumInts(PricesOf(history), 1), Len(history))
             deviation == RDiv(RSub(Num(marketData.currentPrice), avg), avg)
         IN  IF RLt(Rat(2, 100), deviation) THEN BuyNo5
             ELSE IF RLt(deviation, Rat(-2, 100)) THEN BuyYes5
             ELSE Hold

\* The returns (p[i+1] - p[i]) / p[i] of prices[i..].
RECURSIVE Returns(_, _)
Returns(prices, i) ==
    IF i >= Len(prices) THEN << >>
    ELSE << Rat(prices[i + 1] - prices[i], prices[i]) >> \o Returns(prices, i + 1)

RECURSIVE SumRationals(_, _)
SumRationals(xs, i) ==
    IF i > Len(xs) THEN Num(0) ELSE RAdd(xs[i], SumRationals(xs, i + 1))

\* The variance that calculateVolatility takes the square root of.
VolatilitySquared(prices) ==
    IF Len(prices) < 2 THEN Num(0)
    ELSE LET returns == Returns(prices, 1)
             mean == RDiv(SumRationals(returns, 1), Num(Len(returns)))
             squares == [j \in DOMAIN returns |->
                            RMul(RSub(returns[j], mean), RSub(returns[j], mean))]
         IN  RDiv(SumRationals(squares, 1), Num(Len(returns)))

\* makeDecision of createVolatilityModel(); recentVol > longVol * 1.5 is
\* compared on the squares, recentVol^2 > 2.25 * longVol^2.
VolatilityDecision(marketData, history) ==
    IF Len(history) < 10 THEN Hold
    ELSE LET prices == PricesOf(history)
             recentSquared == VolatilitySquared(LastN(prices, 5))
             longSquared == VolatilitySquared(prices)
         IN  IF RLt(RMul(Rat(9, 4), longSquared), recentSquared)
             THEN IF prices[Len(prices)] - prices[Len(prices) - 1] > 0
                  THEN BuyYes5 ELSE BuyNo5
             ELSE Hold

\* The strategies whose decision is a function of the bars.
IndicatorIds == {"momentum", "mean-reversion", "rsi", "volatility"}

\* makeDecision of the strategy with the given id.
MakeDecision(id, marketData, history) ==
    IF id = "momentum" THEN MomentumDecision(marketData, history)
    ELSE IF id = "mean-reversion" THEN MeanReversionDecision(marketData, history)
    ELSE IF id = "rsi" THEN RSIDecision(marketData, history)
    ELSE VolatilityDecision(marketData, history)

\* ------------------------------------------------------------------------
\* The store (src/lib/db.ts, src/supabase-schema.sql)
\* ------------------------------------------------------------------------

\* DECIMAL(10, 2), the type of the money columns, keeps hundredths.
MoneyScale == 100

\* DECIMAL(10, 4), the type of the price columns, keeps ten-thousandths.
PriceScale == 10000

\* The value a DECIMAL column of the given scale stores for the number x:
\* x rounded to the nearest multiple of 1/scale, halves away from zero.
DecimalRound(x, scale) ==
    IF ~IsNumber(x) THEN x
    ELSE LET a == Abs(x[1]) * scale
             q == (2 * a + x[2]) \div (2 * x[2])
         IN  Rat(IF x[1] < 0 THEN -q ELSE q, scale)

\* new Date().toDateString() on the given day, "Tue Nov 03 2026".
ToDateString(day) == << "toDateString", day >>

\* What a DATE column gives back for a date string it was handed: the day
\* in the form "2026-11-03".
DateColumn(date) == << "iso", date[2] >>

\* The tables of a new database; created lists the models rows by
\* created_at, history is performance_history by (model_id, date), and
\* nextUuid numbers the ids the database generates (gen_random_uuid()).
EmptyDb ==
    [ models |-> << >>, created |-> << >>, trades |-> << >>, positions |-> << >>,
      history |-> << >>, nextUuid |-> 1 ]

\* The Trade objects of a strategy state in memory. The engine gives the
\* k-th trade the id `${model.id}-${Date.now()}-${Math.random()}`, a string
\* that no other trade and no database row has, and the time of its
\* execution, later than the time of the trades before it.
\* A trade that was loaded from the store keeps the id and the time of its
\* row.
MemTrades(id, state) ==
    [k \in DOMAIN state.trades |->
        IF "id" \in DOMAIN state.trades[k] THEN state.trades[k]
        ELSE [ id        |-> << "mem", id, k >>,
               timestamp |-> k,
               direction |-> state.trades[k].direction,
               price     |-> state.trades[k].price,
               quantity  |-> state.trades[k].quantity,
               cost      |-> state.trades[k].cost ]]

\* The rows inserted for the trades ts[i..]; the insert names no id, so the
\* database generates one for each row.
RECURSIVE TradeRows(_, _, _, _)
TradeRows(id, ts, i, uuid) ==
    IF i > Len(ts) THEN << >>
    ELSE << [ id        |-> << "uuid", uuid >>,
              model_id  |-> id,
              timestamp |-> ts[i].timestamp,
              direction |-> ts[i].direction,
              price     |-> DecimalRound(ts[i].price, PriceScale),
              quantity  |-> ts[i].quantity,
              cost      |-> DecimalRound(ts[i].cost, MoneyScale) ] >>
         \o TradeRows(id, ts, i + 1, uuid + 1)

\* saveModelToDb that replaces the stored trades of the strategy by the
\* trades it holds in memory.
SaveModelToDbReplacesTrades(d, id, state, lastResetDate) ==
    LET memTrades == MemTrades(id, state)
        existingTradeIds ==
            { d.trades[k].id : k \in { j \in DOMAIN d.trades : d.trades[j].model_id = id } }
        newTrades == SelectSeq(memTrades, LAMBDA t : t.id \notin existingTradeIds)
        dbPositions ==
            [k \in DOMAIN state.positions |->
                [ model_id      |-> id,
                  direction     |-> state.positions[k].direction,
                  quantity      |-> state.positions[k].quantity,
                  average_price |-> DecimalRound(state.positions[k].averagePrice, PriceScale),
                  total_cost    |-> DecimalRound(state.positions[k].totalCost, MoneyScale) ]]
    IN  [ models    |-> [m \in DOMAIN d.models \cup {id} |->
                            IF m = id
                            THEN [ balance      |-> DecimalRound(state.balance, MoneyScale),
                                   total_pnl    |-> DecimalRound(state.totalPnL, MoneyScale),
                                   daily_return |-> DecimalRound(state.dailyReturn, MoneyScale),
                                   total_trades |-> Len(state.trades),
                                   last_reset_date |-> DateColumn(lastResetDate) ]
                            ELSE d.models[m]],
          created   |-> IF id \in DOMAIN d.models THEN d.created
                                                  ELSE Append(d.created, id),
          trades    |-> SelectSeq(d.trades, LAMBDA r : r.model_id # id)
                           \o TradeRows(id, memTrades, 1, d.nextUuid),
          positions |-> SelectSeq(d.positions, LAMBDA r : r.model_id # id) \o dbPositions,
          history   |-> d.history,
          nextUuid  |-> d.nextUuid + Len(newTrades) ]

\* saveModelToDb(model, lastResetDate) for the strategy id in the given
\* state: upsert of the models row, insert of the trades whose id is not
\* among the stored ids, replacement of the positions rows.
SaveModelToDb(d, id, state, lastResetDate) ==
    LET memTrades == MemTrades(id, state)
        existingTradeIds ==
            { d.trades[k].id : k \in { j \in DOMAIN d.trades : d.trades[j].model_id = id } }
        newTrades == SelectSeq(memTrades, LAMBDA t : t.id \notin existingTradeIds)
        dbPositions ==
            [k \in DOMAIN state.positions |->
                [ model_id      |-> id,
                  direction     |-> state.positions[k].direction,
                  quantity      |-> state.positions[k].quantity,
                  average_price |-> DecimalRound(state.positions[k].averagePrice, PriceScale),
                  total_cost    |-> DecimalRound(state.positions[k].totalCost, MoneyScale) ]]
    IN  [ models    |-> [m \in DOMAIN d.models \cup {id} |->
                            IF m = id
                            THEN [ balance      |-> DecimalRound(state.balance, MoneyScale),
                                   total_pnl    |-> DecimalRound(state.totalPnL, MoneyScale),
                                   daily_return |-> DecimalRound(state.dailyReturn, MoneyScale),
                                   total_trades |-> Len(state.trades),
                                   last_reset_date |-> DateColumn(lastResetDate) ]
                            ELSE d.models[m]],
          created   |-> IF id \in DOMAIN d.models THEN d.created
                                                  ELSE Append(d.created, id),
          trades    |-> d.trades \o TradeRows(id, newTrades, 1, d.nextUuid),
          positions |-> SelectSeq(d.positions, LAMBDA r : r.model_id # id) \o dbPositions,
          history   |-> d.history,
          nextUuid  |-> d.nextUuid + Len(newTrades) ]

\* saveAllModelsToDb(models, lastResetDate): saveModelToDb for the strategies
\* ord[i..]; the saves touch disjoint rows.
RECURSIVE SaveAllModelsToDbFrom(_, _, _, _, _)
SaveAllModelsToDbFrom(d, ms, ord, lastResetDate, i) ==
    IF i > Len(ord) THEN d
    ELSE SaveAllModelsToDbFrom(SaveModelToDb(d, ord[i], ms[ord[i]], lastResetDate),
                               ms, ord, lastResetDate, i + 1)

SaveAllModelsToDb(d, ms, ord, lastResetDate) ==
    SaveAllModelsToDbFrom(d, ms, ord, lastResetDate, 1)

\* order('timestamp', { ascending: true }) over rows[i..], added to the
\* sorted rows acc; rows with equal timestamps stay in insertion order.
RECURSIVE OrderByTimestamp(_, _, _)
OrderByTimestamp(rows, i, acc) ==
    IF i > Len(rows) THEN acc
    ELSE LET n == Cardinality({ k \in DOMAIN acc : acc[k].timestamp <= rows[i].timestamp })
         IN  OrderByTimestamp(rows, i + 1,
                 SubSeq(acc, 1, n) \o << rows[i] >> \o SubSeq(acc, n + 1, Len(acc)))

\* loadModelsFromDb(): for every models row, the strategy state built from
\* the row, its trades rows ordered by timestamp and its positions rows.
LoadModelsFromDb(d) ==
    [id \in DOMAIN d.models |->
        LET trades == OrderByTimestamp(
                          SelectSeq(d.trades, LAMBDA r : r.model_id = id), 1, << >>)
            positions == SelectSeq(d.positions, LAMBDA r : r.model_id = id)
        IN  [ balance     |-> d.models[id].balance,
              positions   |-> [k \in DOMAIN positions |->
                                 [ direction    |-> positions[k].direction,
                                   quantity     |-> positions[k].quantity,
                                   averagePrice |-> positions[k].average_price,
                                   totalCost    |-> positions[k].total_cost ]],
              trades      |-> [k \in DOMAIN trades |->
                                 [ id        |-> trades[k].id,
                                   timestamp |-> trades[k].timestamp,
                                   direction |-> trades[k].direction,
                                   price     |-> trades[k].price,
                                   quantity  |-> trades[k].quantity,
                                   cost      |-> trades[k].cost ]],
              totalPnL    |-> d.models[id].total_pnl,
              dailyReturn |-> d.models[id].daily_return ]]

\* ------------------------------------------------------------------------
\* The routes (src/unnamed/part_001, src/app/api/reset-daily/route.ts,
\* src/app/api/backtest/route.ts) and their market data
\* (src/lib/marketData.ts)
\* ------------------------------------------------------------------------

\* The ids of createAllModels(), in its order (two of them).
AllModels == << "random", "momentum" >>

\* makeDecision of a strategy as dbModelToTradingModel builds it:
\* async () => ({ action: 'HOLD' }). The makeDecision of the strategy that
\* createAllModels() makes for an id is named by that id.
Placeholder == "placeholder"

\* lastResetDate of loadModelsFromDb() on the given day.
LastResetDate(d, today) ==
    IF d.created = << >> THEN ToDateString(today)
    ELSE d.models[d.created[1]].last_reset_date

\* initializeModelsInDb(models): the strategies without a models row are
\* saved with today's date.
InitializeModelsInDb(d, ms, ord, today) ==
    SaveAllModelsToDb(d, ms, SelectSeq(ord, LAMBDA id : id \notin DOMAIN d.models),
                      ToDateString(today))

\* savePerformanceHistory(modelId, date, performance); when the upsert
\* fails the error is logged and the call returns as usual.
SavePerformanceHistory(d, modelId, date, performance, failed) ==
    IF failed THEN d
    ELSE LET key == << modelId, DateColumn(date) >>
             row == [ starting_balance |-> DecimalRound(performance.startingBalance, MoneyScale),
                      ending_balance   |-> DecimalRound(performance.endingBalance, MoneyScale),
                      daily_return     |-> DecimalRound(performance.dailyReturn, MoneyScale),
                      total_trades     |-> performance.totalTrades,
                      total_pnl        |-> DecimalRound(performance.totalPnL, MoneyScale) ]
         IN  [d EXCEPT !.history = [k \in DOMAIN d.history \cup {key} |->
                                       IF k = key THEN row ELSE d.history[k]]]

\* The performance that getEngine hands to savePerformanceHistory.
PerformanceOf(state) ==
    [ startingBalance |-> Num(100),
      endingBalance   |-> state.balance,
      dailyReturn     |-> state.dailyReturn,
      totalTrades     |-> Len(state.trades),
      totalPnL        |-> state.totalPnL ]

\* The loop of getEngine over the strategies ord[i..] that saves their
\* performance; failing holds the ids whose upsert fails.
RECURSIVE SaveSnapshotsFrom(_, _, _, _, _, _)
SaveSnapshotsFrom(d, ms, ord, yesterday, failing, i) ==
    IF i > Len(ord) THEN d
    ELSE SaveSnapshotsFrom(
             SavePerformanceHistory(d, ord[i], yesterday, PerformanceOf(ms[ord[i]]),
                                    ord[i] \in failing),
             ms, ord, yesterday, failing, i + 1)

\* The strategies keep the makeDecision they were loaded with.
RestoreDecisionFunctionsKeepsLoaded(fns) == fns

\* makeDecision: modelMap.get(model.id)?.makeDecision || model.makeDecision
RestoreDecisionFunctions(fns) ==
    [id \in DOMAIN fns |-> IF id \in Ids(AllModels) THEN id ELSE fns[id]]

\* getEngine() on the given day: the strategies of the store, or new ones
\* when it has none, with their makeDecision, after the reset of a new day.
GetEngine(d, today, failing) ==
    LET currentDate == ToDateString(today)
        lastResetDate == LastResetDate(d, today)
        empty == d.created = << >>
        ord == IF empty THEN AllModels ELSE d.created
        loaded == IF empty THEN [id \in Ids(AllModels) |-> NewModelState(DefaultBalance)]
                           ELSE LoadModelsFromDb(d)
        fns == IF empty THEN [id \in Ids(AllModels) |-> id]
                        ELSE RestoreDecisionFunctions([id \in DOMAIN loaded |-> Placeholder])
        initialized == IF empty THEN InitializeModelsInDb(d, loaded, ord, today) ELSE d
        newDay == currentDate # lastResetDate /\ Len(ord) > 0
        saved == IF newDay
                 THEN SaveSnapshotsFrom(initialized, loaded, ord, lastResetDate, failing, 1)
                 ELSE initialized
        ms == IF newDay THEN [id \in DOMAIN loaded |-> ResetModel(loaded[id])]
                        ELSE loaded
    IN  [ db        |-> IF newDay THEN SaveAllModelsToDb(saved, ms, ord, currentDate)
                                  ELSE saved,
          models    |-> ms,
          order     |-> ord,
          fns       |-> fns,
          fromStore |-> ~empty,
          newDay    |-> newDay,
          yesterday |-> lastResetDate,
          loaded    |-> loaded ]

\* What a call of the external source (fxverify) does: it throws, or it
\* returns data.
Throws == [kind |-> "throws"]

Gives(data) == [kind |-> "data", data |-> data]

\* fetchMarketData without its catch.
FetchMarketDataRethrows(source, simulated) ==
    IF source.kind = "throws"
    THEN [threw |-> TRUE, from |-> "none", data |-> simulated]
    ELSE [threw |-> FALSE, from |-> "fxverify", data |-> source.data]

\* fetchMarketData(): the bar of the source, or the bar that
\* generateSimulatedMarketData() makes.
FetchMarketData(source, simulated) ==
    IF source.kind = "throws"
    THEN [threw |-> FALSE, from |-> "simulated", data |-> simulated]
    ELSE [threw |-> FALSE, from |-> "fxverify", data |-> source.data]

\* generateHistoricalData without its catch.
GenerateHistoricalDataRethrows(source, simulated) ==
    IF source.kind = "throws"
    THEN [threw |-> TRUE, from |-> "none", data |-> << >>]
    ELSE IF Len(source.data) > 0
    THEN [threw |-> FALSE, from |-> "fxverify", data |-> source.data]
    ELSE [threw |-> FALSE, from |-> "simulated", data |-> simulated]

\* generateHistoricalData(count): the bars of the source when it returns
\* any, or the count bars that generateSimulatedHistoricalData(count) makes.
GenerateHistoricalData(source, simulated) ==
    IF source.kind = "data" /\ Len(source.data) > 0
    THEN [threw |-> FALSE, from |-> "fxverify", data |-> source.data]
    ELSE [threw |-> FALSE, from |-> "simulated", data |-> simulated]

\* The least number of bars the backtest route runs on.
RouteMinBars == 20

\* historicalData of the backtest route: the 1-minute data of the source,
\* else its 15-minute bars, else generateHistoricalData(total15MinBars).
BacktestRouteData(oneMinute, fifteen, historical, simulated) ==
    IF oneMinute.kind = "data" /\ Len(oneMinute.data) > 0
    THEN [threw |-> FALSE, from |-> "1-minute", data |-> oneMinute.data]
    ELSE IF fifteen.kind = "data" /\ Len(fifteen.data) > 0
    THEN [threw |-> FALSE, from |-> "15-minute", data |-> fifteen.data]
    ELSE GenerateHistoricalData(historical, simulated)

\* The Trade objects that executeTrade made during a request at the time
\* now: id `${model.id}-${Date.now()}-${Math.random()}`, timestamp new Date().
StampTrades(id, state, now) ==
    [state EXCEPT !.trades =
        [k \in DOMAIN state.trades |->
            IF "id" \in DOMAIN state.trades[k] THEN state.trades[k]
            ELSE [ id        |-> << "mem", id, now >>,
                   timestamp |-> now,
                   direction |-> state.trades[k].direction,
                   price     |-> state.trades[k].price,
                   quantity  |-> state.trades[k].quantity,
                   cost      |-> state.trades[k].cost ]]]

\* What the makeDecision named fn returns; random is what Math.random()
\* makes the Random strategy return.
DecisionOf(fn, random, marketData, history) ==
    IF fn = Placeholder THEN Hold
    ELSE IF fn = "random" THEN random
    ELSE MakeDecision(fn, marketData, history)

\* No decision cycle of a strategy on given bars.
NoStrategyCall == [pc |-> "idle"]

\* No request of the routes yet.
NoLive == [pc |-> "idle"]

\* ------------------------------------------------------------------------
\* State
\* ------------------------------------------------------------------------

VARIABLES
    models,          \* engine.models: strategy id -> ModelState
    order,           \* insertion order of engine.models (its iteration order)
    initialBalance,  \* the balance every strategy state was seeded with
    solo,            \* solo[id]: the models of an engine holding only id,
                     \* driven by the same bars and the same decisions
    threw,           \* the last executeTradingCycle call rejected
    lastOp,          \* "new", "cycle" or "settle": the last engine call
    prevOp,          \* the engine call before the last one
    lastData,        \* its marketData argument
    lastDecide,      \* what each makeDecision did in the last cycle
    prev,            \* engine.models before the last engine call
    nOps,            \* number of engine calls so far
    bt,              \* the locals of a runBacktest call
    btSolo,          \* the same call for the current strategy alone
    db,              \* the tables of the store
    strat,           \* one decision cycle of one strategy on given bars
    live             \* the wall clock and the last request of the routes

vars == << models, order, initialBalance, solo, threw,
           lastOp, prevOp, lastData, lastDecide, prev, nOps, bt, btSolo, db,
           strat, live >>

\* The lists of strategies the constructor can be handed: one strategy
\* (runBacktest builds one engine per strategy) or all of them, in any order.
Orders == { o \in UNION { [1..n -> ModelIds] : n \in {1, Cardinality(ModelIds)} } :
              \A i, j \in DOMAIN o : i # j => o[i] # o[j] }

\* How many calls the model makes on the engine.
OpsBound == IF Len(order) = 1 THEN MaxOps ELSE MaxLiveOps

NoData == [yesPrice |-> Num(0), noPrice |-> Num(0)]

\* new PaperTradingEngine(models) on freshly seeded strategy states: the
\* strategies of createAllModels(), or one strategy seeded by runBacktest.
Init ==
    /\ order \in Orders
    /\ initialBalance \in IF Len(order) = 1 THEN InitialBalances ELSE {DefaultBalance}
    /\ models = [id \in Ids(order) |-> NewModelState(initialBalance)]
    /\ solo = [id \in Ids(order) |-> [m \in {id} |-> NewModelState(initialBalance)]]
    /\ threw = FALSE
    /\ lastOp = "new"
    /\ prevOp = "new"
    /\ lastData = NoData
    /\ lastDecide = [id \in Ids(order) |-> [action |-> "HOLD"]]
    /\ prev = models
    /\ nOps = 0
    /\ bt = NoBacktest
    /\ btSolo = NoSolo
    /\ db = EmptyDb
    /\ strat = NoStrategyCall
    /\ live = NoLive

\* await engine.executeTradingCycle(marketData, history)
Cycle ==
    /\ nOps < OpsBound
    /\ \E marketData \in MarketData, decide \in [DOMAIN models -> Decision] :
          LET r == ExecuteTradingCycle(models, order, marketData, decide)
          IN  /\ models' = r.models
              /\ threw' = r.threw
              /\ solo' = [id \in DOMAIN models |->
                            ExecuteTradingCycle(solo[id], <<id>>, marketData, decide).models]
              /\ lastData' = marketData
              /\ lastDecide' = decide
    /\ lastOp' = "cycle"
    /\ prevOp' = lastOp
    /\ prev' = models
    /\ nOps' = nOps + 1
    /\ UNCHANGED << order, initialBalance, bt, btSolo, db, strat, live >>

\* engine.settlePositions(marketData)
Settle ==
    /\ nOps < OpsBound
    /\ \E marketData \in MarketData :
          /\ models' = SettlePositions(models, marketData)
          /\ solo' = [id \in DOMAIN models |-> SettlePositions(solo[id], marketData)]
          /\ lastData' = marketData
    /\ lastOp' = "settle"
    /\ prevOp' = lastOp
    /\ prev' = models
    /\ nOps' = nOps + 1
    /\ UNCHANGED << order, initialBalance, threw, lastDecide, bt, btSolo, db, strat, live >>

Next == Cycle \/ Settle

Spec == Init /\ [][Next]_vars

\* engine.resetAllModels()
ResetAll ==
    /\ nOps < OpsBound
    /\ models' = ResetAllModels(models)
    /\ solo' = [id \in DOMAIN models |-> ResetAllModels(solo[id])]
    /\ lastOp' = "reset"
    /\ prevOp' = lastOp
    /\ prev' = models
    /\ nOps' = nOps + 1
    /\ UNCHANGED << order, initialBalance, threw, lastData, lastDecide, bt, btSolo, db, strat, live >>

NextReset == Cycle \/ Settle \/ ResetAll

\* The engine with its reset: cycles, settlements and resets in any order.
SpecReset == Init /\ [][NextReset]_vars

\* ------------------------------------------------------------------------
\* The engine and the store
\* ------------------------------------------------------------------------

\* The engine of the train and trade routes: the strategies of
\* createAllModels(), seeded with their own balance, and an empty store.
InitDb == Init /\ initialBalance = DefaultBalance

\* await saveAllModelsToDb(engine.getModels(), currentDate)
SaveAll ==
    /\ nOps < OpsBound
    /\ db' = SaveAllModelsToDb(db, models, order, ToDateString(1))
    /\ lastOp' = "save"
    /\ prevOp' = lastOp
    /\ prev' = models
    /\ nOps' = nOps + 1
    /\ UNCHANGED << models, order, initialBalance, solo, threw,
                    lastData, lastDecide, bt, btSolo, strat, live >>

NextDb == Cycle \/ Settle \/ SaveAll

\* The engine with saves of its strategies at any point.
SpecDb == InitDb /\ [][NextDb]_vars

\* ------------------------------------------------------------------------
\* A call of runBacktest
\* ------------------------------------------------------------------------

engineVars == << models, order, initialBalance, solo, threw,
                 lastOp, prevOp, lastData, lastDecide, prev, nOps >>

\* runBacktest is called; no engine exists outside the call.
InitBacktest ==
    /\ order = << >>
    /\ initialBalance = DefaultBalance
    /\ models = << >>
    /\ solo = << >>
    /\ threw = FALSE
    /\ lastOp = "new"
    /\ prevOp = "new"
    /\ lastData = NoData
    /\ lastDecide = << >>
    /\ prev = << >>
    /\ nOps = 0
    /\ \E list \in ModelLists, balance \in InitialBalances :
          \E hist \in SeriesFor(Len(list)) :
             \E now \in Clocks(hist) :
                bt = BacktestCall(list, hist, balance, now)
    /\ btSolo = NoSolo
    /\ db = EmptyDb
    /\ strat = NoStrategyCall
    /\ live = NoLive

\* The length test and the set-up for the first strategy.
RunBacktestBegin ==
    /\ bt.pc = "start"
    /\ bt' = BeginBacktest(bt)
    /\ btSolo' = [btSolo EXCEPT !.run = SoloOf(bt'), !.rerun = RerunOf(bt')]
    /\ UNCHANGED << engineVars, db, strat, live >>

\* One iteration of the loop over the bars.
RunBacktestBar ==
    /\ bt.pc = "run"
    /\ bt.i < Len(bt.hist)
    /\ \E decision \in Decision :
          /\ bt' = BacktestBar(bt, decision)
          /\ btSolo' = [btSolo EXCEPT !.run = BacktestBar(btSolo.run, decision),
                                      !.rerun = BacktestBar(btSolo.rerun, decision)]
    /\ UNCHANGED << engineVars, db, strat, live >>

\* The bars of a strategy are done: its result, then the next strategy.
RunBacktestResult ==
    /\ bt.pc = "run"
    /\ bt.i >= Len(bt.hist)
    /\ bt' = FinishModel(bt)
    /\ btSolo' = [ run    |-> SoloOf(bt'),
                   last   |-> FinishModel(btSolo.run),
                   rerun  |-> RerunOf(bt'),
                   relast |-> FinishModel(btSolo.rerun) ]
    /\ UNCHANGED << engineVars, db, strat, live >>

NextBacktest == RunBacktestBegin \/ RunBacktestBar \/ RunBacktestResult

SpecBacktest == InitBacktest /\ [][NextBacktest]_vars

\* ------------------------------------------------------------------------
\* A decision cycle of a strategy on given bars
\* ------------------------------------------------------------------------

\* Lengths of the history handed to a strategy.
HistoryLens == {0, 2, 3, 4, 6, 9, 10, 14, 15, 16}

\* Shapes of the price series of a history.
Shapes == {"flat", "up", "down", "zigzag", "mixed", "spike", "dip"}

\* Shapes whose prices are 2, 4 and 8, so that the returns are 1, -1/2, 0.
SmallShapes == {"spike", "dip"}

\* The price of the first bar of a history that is not of a small shape.
Bases == {100, 1000}

\* The current price, as a difference from the price of the last bar.
Deltas == {-3, -2, -1, 0, 1, 2, 3}

\* none: no bar has 1-minute candles; current: only the current bar has
\* them; all: every bar has them.
CandleModes == {"none", "current", "all"}

\* A series of 15 prices with 7 rises of 1, one fall of 3 and flats.
MixedPrices ==
    << 0, 1, 2, 3, 4, 5, 6, 7, 4, 4, 4, 4, 4, 4, 4 >>

\* currentPrice of the j-th of the n bars of a history.
PriceAt(shape, base, n, j) ==
    IF shape = "flat" THEN base
    ELSE IF shape = "up" THEN base + (j - 1)
    ELSE IF shape = "down" THEN base + (n - j)
    ELSE IF shape = "zigzag" THEN base + (j % 2)
    ELSE IF shape = "mixed" THEN base + (IF j <= 15 THEN MixedPrices[j] ELSE 4)
    ELSE IF shape = "spike" THEN (IF j = n THEN 8 ELSE 4)
    ELSE (IF j = n THEN 2 ELSE 4)

\* The closes of the three 1-minute candles of a bar that has candles.
CandlesOf(price) == << price - 1, price, price >>

\* A bar as a strategy and the engine read it.
StrategyBar(price, candles) ==
    [ currentPrice  |-> price,
      minuteCandles |-> IF candles THEN CandlesOf(price) ELSE << >>,
      yesPrice      |-> Num(10),
      noPrice       |-> Num(90) ]

HistoryOf(shape, base, n, mode) ==
    [j \in 1..n |-> StrategyBar(PriceAt(shape, base, n, j), mode = "all")]

\* The current bar after the history.
CurrentOf(shape, base, n, mode, delta) ==
    LET last == IF n = 0 THEN base ELSE PriceAt(shape, base, n, n)
        price == IF last + delta < 1 THEN 1 ELSE last + delta
    IN  StrategyBar(price, mode # "none")

\* The scenario of a 6-bar history rising 1 percent per bar with a current
\* price 1 percent higher, in whole prices.
RisingOnePercent == << 50000, 50500, 51005, 51515, 52030, 52551, 53076 >>

\* engine.executeTradingCycle(marketData, history) is about to be called on
\* an engine that holds the one strategy id in its initial state.
StrategyCall(id, marketData, history) ==
    [ pc         |-> "ready",
      id         |-> id,
      marketData |-> marketData,
      history    |-> history,
      decision   |-> Hold,
      before     |-> NewModelState(DefaultBalance),
      after      |-> NewModelState(DefaultBalance),
      error      |-> FALSE ]

\* The bars the strategies are called on. The Volatility strategy gets
\* histories of 10 bars or more only in the small shapes and the flat one,
\* which keep its variances within the integers of the check.
StrategyCalls ==
    { StrategyCall(id, CurrentOf(shape, base, n, mode, delta),
                   HistoryOf(shape, base, n, mode)) :
        id \in IndicatorIds, shape \in Shapes \ SmallShapes, base \in Bases,
        n \in HistoryLens, mode \in CandleModes, delta \in Deltas }
    \cup
    { StrategyCall(id, CurrentOf(shape, 4, n, mode, delta),
                   HistoryOf(shape, 4, n, mode)) :
        id \in IndicatorIds, shape \in SmallShapes,
        n \in HistoryLens \ {0}, mode \in CandleModes, delta \in {-1, 0, 1} }
    \cup
    { StrategyCall(id, StrategyBar(RisingOnePercent[7], FALSE),
                   [j \in 1..6 |-> StrategyBar(RisingOnePercent[j], FALSE)]) :
        id \in IndicatorIds }

EngineAbsent ==
    /\ order = << >>
    /\ initialBalance = DefaultBalance
    /\ models = << >>
    /\ solo = << >>
    /\ threw = FALSE
    /\ lastOp = "new"
    /\ prevOp = "new"
    /\ lastData = NoData
    /\ lastDecide = << >>
    /\ prev = << >>
    /\ nOps = 0

InitStrategy ==
    /\ EngineAbsent
    /\ bt = NoBacktest
    /\ btSolo = NoSolo
    /\ db = EmptyDb
    /\ live = NoLive
    /\ strat \in { c \in StrategyCalls :
                     c.id = "volatility" /\ Len(c.history) >= 10 =>
                        \A j \in DOMAIN c.history : c.history[j].currentPrice <= 8
                                                    \/ c.history[j].currentPrice = c.history[1].currentPrice }

\* await engine.executeTradingCycle(marketData, history): the strategy
\* decides, the engine acts on the decision.
RunStrategyCycle ==
    /\ strat.pc = "ready"
    /\ LET decision == MakeDecision(strat.id, strat.marketData, strat.history)
           cycle == ExecuteTradingCycle([x \in {strat.id} |-> strat.before],
                                        << strat.id >>, strat.marketData,
                                        [x \in {strat.id} |-> decision])
       IN  strat' = [strat EXCEPT !.pc = "done",
                                  !.decision = decision,
                                  !.after = cycle.models[strat.id],
                                  !.error = cycle.threw]
    /\ UNCHANGED << engineVars, bt, btSolo, db, live >>

NextStrategy == RunStrategyCycle

SpecStrategy == InitStrategy /\ [][NextStrategy]_vars

\* ------------------------------------------------------------------------
\* The routes on a store
\* ------------------------------------------------------------------------

\* The current bar and the 20 bars of history that the source, or the
\* simulation when the source is down, gives to a trade request: a flat
\* history with a current price on it or 19 percent above it.
LiveData ==
    { [ bar |-> StrategyBar(price, FALSE), history |-> HistoryOf("flat", 100, 20, "none") ] :
        price \in {100, 119} }

\* What Math.random() makes the Random strategy decide.
RandomDecisions == { Hold, [action |-> "BUY_NO", quantity |-> 1] }

\* The sets of strategies whose savePerformanceHistory upsert fails.
SnapshotFailures == { {}, {"momentum"} }

\* The server has started on day 1 with an empty store and has served no
\* request.
NoRequest == [kind |-> "none"]

InitLive ==
    /\ EngineAbsent
    /\ bt = NoBacktest
    /\ btSolo = NoSolo
    /\ strat = NoStrategyCall
    /\ db = EmptyDb
    /\ live = [ pc |-> "live", day |-> 1, now |-> 1, n |-> 0,
                resetDay |-> 0, prevResetDay |-> 0, last |-> NoRequest ]

\* What a request leaves of the clock and of the resets: the day of the
\* last reset of a new day, before and after the request.
Served(newDay, last) ==
    [live EXCEPT !.now = live.now + 1,
                 !.n = live.n + 1,
                 !.prevResetDay = live.resetDay,
                 !.resetDay = IF newDay THEN live.day ELSE live.resetDay,
                 !.last = last]

\* GET of the trading route and of the models route: getEngine(), then the
\* strategies as the response.
GetRequest ==
    /\ live.pc = "live"
    /\ live.n < MaxRequests
    /\ \E failing \in IF db.created = << >> THEN {{}} ELSE SnapshotFailures :
          LET e == GetEngine(db, live.day, failing)
          IN  /\ db' = e.db
              /\ live' = Served(e.newDay, [ kind      |-> "get",
                                            status    |-> 200,
                                            fromStore |-> e.fromStore,
                                            newDay    |-> e.newDay,
                                            yesterday |-> e.yesterday,
                                            loaded    |-> e.loaded,
                                            order     |-> e.order,
                                            fns       |-> e.fns,
                                            models    |-> e.models ])
    /\ UNCHANGED << engineVars, bt, btSolo, strat >>

\* POST of the trading route: getEngine(), fetchMarketData(),
\* generateHistoricalData(20), executeTradingCycle, settlePositions,
\* saveAllModelsToDb; an error thrown on the way is answered with 500.
TradeRequest ==
    /\ live.pc = "live"
    /\ live.n < MaxRequests
    /\ \E failing \in IF db.created = << >> THEN {{}} ELSE SnapshotFailures,
          data \in LiveData, sourceUp \in BOOLEAN, random \in RandomDecisions :
          LET e == GetEngine(db, live.day, failing)
              marketData == FetchMarketData(
                                IF sourceUp THEN Gives(data.bar) ELSE Throws, data.bar)
              history == GenerateHistoricalData(
                             IF sourceUp THEN Gives(data.history) ELSE Throws,
                             data.history)
              failed == marketData.threw \/ history.threw
              decide == [id \in DOMAIN e.models |->
                            DecisionOf(e.fns[id], random, marketData.data, history.data)]
              cycle == ExecuteTradingCycle(e.models, e.order, marketData.data, decide)
              traded == [id \in DOMAIN e.models |->
                            StampTrades(id, cycle.models[id], live.now)]
              settled == SettlePositions(traded, marketData.data)
          IN  /\ db' = IF failed THEN e.db
                       ELSE SaveAllModelsToDb(e.db, settled, e.order, ToDateString(live.day))
              /\ live' = Served(e.newDay,
                                [ kind       |-> "trade",
                                  status     |-> IF failed THEN 500 ELSE 200,
                                  fromStore  |-> e.fromStore,
                                  newDay     |-> e.newDay,
                                  yesterday  |-> e.yesterday,
                                  loaded     |-> e.loaded,
                                  order      |-> e.order,
                                  fns        |-> e.fns,
                                  marketData |-> data.bar,
                                  history    |-> data.history,
                                  decide     |-> IF failed THEN << >> ELSE decide,
                                  models     |-> IF failed THEN e.models ELSE settled ])
    /\ UNCHANGED << engineVars, bt, btSolo, strat >>

\* POST of the models route with action 'reset':
\* saveAllModelsToDb(createAllModels(), currentDate).
ResetRequest ==
    /\ live.pc = "live"
    /\ live.n < MaxRequests
    /\ db' = SaveAllModelsToDb(db, [id \in Ids(AllModels) |-> NewModelState(DefaultBalance)],
                               AllModels, ToDateString(live.day))
    /\ live' = Served(FALSE, [kind |-> "reset", status |-> 200])
    /\ UNCHANGED << engineVars, bt, btSolo, strat >>

\* Midnight passes.
NextDay ==
    /\ live.pc = "live"
    /\ live.day < MaxDays
    /\ live' = [live EXCEPT !.day = live.day + 1]
    /\ UNCHANGED << engineVars, bt, btSolo, strat, db >>

NextLive == GetRequest \/ TradeRequest \/ ResetRequest \/ NextDay

\* The routes of the server on one store, one request after the other.
SpecLive == InitLive /\ [][NextLive]_vars

\* ------------------------------------------------------------------------
\* The routes and the market data source
\* ------------------------------------------------------------------------

\* What the source does on a call for the current bar.
CurrentSources == { Throws } \cup { Gives(StrategyBar(price, FALSE)) : price \in {100, 119} }

\* What the source does on a call for bars: it throws, or returns no bar,
\* 19 bars or 20 bars.
RouteSources ==
    { Throws, Gives(<< >>),
      Gives(HistoryOf("flat", 100, 19, "none")),
      Gives(HistoryOf("flat", 100, 20, "none")) }

\* total15MinBars = days * barsPerDay of a backtest request.
RouteCounts == { 10, 20 }

\* The bars generateSimulatedHistoricalData(count) makes.
SimulatedHistory(count) == HistoryOf("up", 100, count, "none")

\* The bar generateSimulatedMarketData() makes.
SimulatedBar == StrategyBar(120, FALSE)

\* The number of bars a call of the source returned, -1 when it threw.
SourceBars(source) == IF source.kind = "throws" THEN -1 ELSE Len(source.data)

\* A request that is about to get its market data: a POST of the trading
\* route on a new store, or a POST of the backtest route.
DataRequests ==
    { [ pc |-> "ready", route |-> "trade", current |-> current,
        historical |-> historical, random |-> random ] :
        current \in CurrentSources, historical \in RouteSources,
        random \in RandomDecisions }
    \cup
    { [ pc |-> "ready", route |-> "backtest", oneMinute |-> oneMinute,
        fifteen |-> fifteen, historical |-> historical, count |-> count ] :
        oneMinute \in RouteSources, fifteen \in RouteSources,
        historical \in RouteSources, count \in RouteCounts }

InitData ==
    /\ EngineAbsent
    /\ bt = NoBacktest
    /\ btSolo = NoSolo
    /\ strat = NoStrategyCall
    /\ db = EmptyDb
    /\ live \in DataRequests

\* POST of the trading route on a new store, as TradeRequest, with what
\* the source does on its two calls.
TradeData ==
    /\ live.pc = "ready"
    /\ live.route = "trade"
    /\ LET e == GetEngine(db, 1, {})
           marketData == FetchMarketData(live.current, SimulatedBar)
           history == GenerateHistoricalData(live.historical, SimulatedHistory(20))
           failed == marketData.threw \/ history.threw
           decide == [id \in DOMAIN e.models |->
                         DecisionOf(e.fns[id], live.random, marketData.data, history.data)]
           cycle == ExecuteTradingCycle(e.models, e.order, marketData.data, decide)
           traded == [id \in DOMAIN e.models |-> StampTrades(id, cycle.models[id], 1)]
           settled == SettlePositions(traded, marketData.data)
       IN  /\ db' = IF failed THEN e.db
                    ELSE SaveAllModelsToDb(e.db, settled, e.order, ToDateString(1))
           /\ live' = [ pc         |-> "done",
                        route      |-> "trade",
                        current    |-> live.current.kind,
                        historical |-> SourceBars(live.historical),
                        status     |-> IF failed THEN 500 ELSE 200,
                        marketData |-> marketData,
                        history    |-> history,
                        decide     |-> IF failed THEN << >> ELSE decide,
                        models     |-> IF failed THEN e.models ELSE traded ]
    /\ UNCHANGED << engineVars, bt, btSolo, strat >>

\* POST of the backtest route up to its call of runBacktest: the bars it
\* gets, 400 when they are fewer than 20, 500 when getting them threw.
BacktestData ==
    /\ live.pc = "ready"
    /\ live.route = "backtest"
    /\ LET r == BacktestRouteData(live.oneMinute, live.fifteen, live.historical,
                                  SimulatedHistory(live.count))
       IN  live' = [ pc         |-> "done",
                     route      |-> "backtest",
                     oneMinute  |-> SourceBars(live.oneMinute),
                     fifteen    |-> SourceBars(live.fifteen),
                     historical |-> SourceBars(live.historical),
                     count      |-> live.count,
                     status     |-> IF r.threw THEN 500
                                    ELSE IF Len(r.data) < RouteMinBars THEN 400
                                    ELSE 200,
                     from       |-> r.from,
                     bars       |-> Len(r.data) ]
    /\ UNCHANGED << engineVars, bt, btSolo, strat, db >>

NextData == TradeData \/ BacktestData

\* The two routes that read the market data source, whatever it does.
SpecData == InitData /\ [][NextData]_vars

\* ------------------------------------------------------------------------
\* Two trade requests that overlap on one store
\* ------------------------------------------------------------------------
\* Each POST of the trading route runs in its own call of the handler, with
\* its own engine; the handlers meet only in the store. A step of a request
\* is one call on the store: loadModelsFromDb, the select of
\* initializeModelsInDb and each of its saveModelToDb, the snapshots with the
\* save of the reset, and, for each saveModelToDb of the final save, the
\* upsert of the row, the select of the trade ids and the insert of the new
\* trades; the cycle and the settlement run in memory. seen, the number of trades rows a request
\* found in the store when it loaded, is kept for the properties.

Requests == {"a", "b"}

\* The wall clock at which the earlier request and the requests a and b
\* execute their trades.
ClockOf(p) == IF p = "earlier" THEN 1 ELSE IF p = "a" THEN 2 ELSE 3

\* fetchMarketData, generateHistoricalData(20), executeTradingCycle and
\* settlePositions of the POST handler on the strategies of its engine.
RunCycle(ms, ord, fns, data, random, now) ==
    LET marketData == FetchMarketData(Gives(data.bar), data.bar).data
        history == GenerateHistoricalData(Gives(data.history), data.history).data
        decide == [id \in DOMAIN ms |-> DecisionOf(fns[id], random, marketData, history)]
        cycle == ExecuteTradingCycle(ms, ord, marketData, decide)
        traded == [id \in DOMAIN ms |-> StampTrades(id, cycle.models[id], now)]
    IN  SettlePositions(traded, marketData)

\* The POST handler run from its start to its end on the store d, with no
\* other request in between.
ServeTrade(d, today, data, random, now) ==
    LET e == GetEngine(d, today, {})
    IN  SaveAllModelsToDb(e.db, RunCycle(e.models, e.order, e.fns, data, random, now),
                          e.order, ToDateString(today))

\* A request that has not started.
NotStarted == [pc |-> "start"]

\* The server on day 1 with an empty store; no request has started.
InitOverlap ==
    /\ EngineAbsent
    /\ bt = NoBacktest
    /\ btSolo = NoSolo
    /\ strat = NoStrategyCall
    /\ db = EmptyDb
    /\ live = [ pc |-> "overlap", day |-> 1, base |-> EmptyDb,
                reqs |-> [p \in Requests |-> NotStarted] ]

\* A trade request that was served before the two requests started.
EarlierRequest ==
    /\ live.pc = "overlap"
    /\ \A p \in Requests : live.reqs[p].pc = "start"
    /\ db = EmptyDb
    /\ \E data \in LiveData, random \in RandomDecisions :
          db' = ServeTrade(db, live.day, data, random, ClockOf("earlier"))
    /\ live' = [live EXCEPT !.base = db']
    /\ UNCHANGED << engineVars, bt, btSolo, strat >>

\* getEngine of the request p up to the return of loadModelsFromDb(): the
\* strategies of the store with their makeDecision restored, or those of
\* createAllModels() when the store holds none.
LoadRequest(p) ==
    /\ live.pc = "overlap"
    /\ live.reqs[p].pc = "start"
    /\ \E data \in LiveData, random \in RandomDecisions :
          LET empty == db.created = << >>
              loaded == IF empty
                        THEN [id \in Ids(AllModels) |-> NewModelState(DefaultBalance)]
                        ELSE LoadModelsFromDb(db)
          IN  live' = [live EXCEPT !.reqs[p] =
                  [ pc            |-> IF empty THEN "init" ELSE "roll",
                    data          |-> data,
                    random        |-> random,
                    now           |-> ClockOf(p),
                    lastResetDate |-> LastResetDate(db, live.day),
                    order         |-> IF empty THEN AllModels ELSE db.created,
                    fns           |-> IF empty THEN [id \in Ids(AllModels) |-> id]
                                      ELSE RestoreDecisionFunctions(
                                               [id \in DOMAIN loaded |-> Placeholder]),
                    models        |-> loaded,
                    seen          |-> Len(db.trades),
                    newTrades     |-> << >>,
                    todo          |-> << >> ]]
    /\ UNCHANGED << engineVars, bt, btSolo, strat, db >>

\* initializeModelsInDb of the request p: the select of the stored ids.
InitSelect(p) ==
    /\ live.pc = "overlap"
    /\ live.reqs[p].pc = "init"
    /\ LET newModels == SelectSeq(live.reqs[p].order, LAMBDA id : id \notin DOMAIN db.models)
       IN  live' = [live EXCEPT !.reqs[p].todo = newModels,
                                !.reqs[p].pc = IF newModels = << >> THEN "ready"
                                                                    ELSE "initsave"]
    /\ UNCHANGED << engineVars, bt, btSolo, strat, db >>

\* initializeModelsInDb of the request p: saveModelToDb of one new strategy.
InitSave(p) ==
    /\ live.pc = "overlap"
    /\ live.reqs[p].pc = "initsave"
    /\ LET r == live.reqs[p]
           id == Head(r.todo)
       IN  /\ db' = SaveModelToDb(db, id, r.models[id], ToDateString(live.day))
           /\ live' = [live EXCEPT !.reqs[p].todo = Tail(r.todo),
                                   !.reqs[p].pc = IF Tail(r.todo) = << >> THEN "ready"
                                                                          ELSE "initsave"]
    /\ UNCHANGED << engineVars, bt, btSolo, strat >>

\* getEngine of the request p on strategies it loaded from the store: on a
\* new day the snapshots, the reset and the save of the reset strategies.
RollOver(p) ==
    /\ live.pc = "overlap"
    /\ live.reqs[p].pc = "roll"
    /\ LET r == live.reqs[p]
           currentDate == ToDateString(live.day)
           newDay == currentDate # r.lastResetDate /\ Len(r.order) > 0
           saved == SaveSnapshotsFrom(db, r.models, r.order, r.lastResetDate, {}, 1)
           ms == [id \in DOMAIN r.models |-> ResetModel(r.models[id])]
       IN  /\ db' = IF newDay THEN SaveAllModelsToDb(saved, ms, r.order, currentDate)
                              ELSE db
           /\ live' = [live EXCEPT !.reqs[p].models = IF newDay THEN ms ELSE r.models,
                                   !.reqs[p].pc = "ready"]
    /\ UNCHANGED << engineVars, bt, btSolo, strat >>

\* The cycle and the settlement of the request p, on its own engine.
CycleRequest(p) ==
    /\ live.pc = "overlap"
    /\ live.reqs[p].pc = "ready"
    /\ LET r == live.reqs[p]
       IN  live' = [live EXCEPT
                      !.reqs[p].models =
                          RunCycle(r.models, r.order, r.fns, r.data, r.random, r.now),
                      !.reqs[p].todo = r.order,
                      !.reqs[p].pc = "save"]
    /\ UNCHANGED << engineVars, bt, btSolo, strat, db >>

\* saveModelToDb: the upsert of the models row.
SaveModelRow(d, id, state, lastResetDate) ==
    [d EXCEPT
        !.models = [m \in DOMAIN d.models \cup {id} |->
                       IF m = id
                       THEN [ balance      |-> DecimalRound(state.balance, MoneyScale),
                              total_pnl    |-> DecimalRound(state.totalPnL, MoneyScale),
                              daily_return |-> DecimalRound(state.dailyReturn, MoneyScale),
                              total_trades |-> Len(state.trades),
                              last_reset_date |-> DateColumn(lastResetDate) ]
                       ELSE d.models[m]],
        !.created = IF id \in DOMAIN d.models THEN d.created ELSE Append(d.created, id)]

\* saveModelToDb: the select of the stored trade ids and the trades in
\* memory whose id is not among them.
NewTradesOf(d, id, state) ==
    LET existingTradeIds ==
            { d.trades[k].id : k \in { j \in DOMAIN d.trades : d.trades[j].model_id = id } }
    IN  SelectSeq(MemTrades(id, state), LAMBDA t : t.id \notin existingTradeIds)

\* saveModelToDb: the insert of the new trades and the replacement of the
\* positions rows.
SaveModelRest(d, id, state, newTrades) ==
    LET dbPositions ==
            [k \in DOMAIN state.positions |->
                [ model_id      |-> id,
                  direction     |-> state.positions[k].direction,
                  quantity      |-> state.positions[k].quantity,
                  average_price |-> DecimalRound(state.positions[k].averagePrice, PriceScale),
                  total_cost    |-> DecimalRound(state.positions[k].totalCost, MoneyScale) ]]
    IN  [d EXCEPT
            !.trades = d.trades \o TradeRows(id, newTrades, 1, d.nextUuid),
            !.positions = SelectSeq(d.positions, LAMBDA r : r.model_id # id) \o dbPositions,
            !.nextUuid = d.nextUuid + Len(newTrades)]

\* saveAllModelsToDb of the request p, saveModelToDb of one strategy: the
\* upsert of its row.
SaveRow(p) ==
    /\ live.pc = "overlap"
    /\ live.reqs[p].pc = "save"
    /\ LET r == live.reqs[p]
           id == Head(r.todo)
       IN  /\ db' = SaveModelRow(db, id, r.models[id], ToDateString(live.day))
           /\ live' = [live EXCEPT !.reqs[p].pc = "select"]
    /\ UNCHANGED << engineVars, bt, btSolo, strat >>

\* The select of the stored trade ids of the strategy.
SaveSelect(p) ==
    /\ live.pc = "overlap"
    /\ live.reqs[p].pc = "select"
    /\ LET r == live.reqs[p]
           id == Head(r.todo)
       IN  live' = [live EXCEPT !.reqs[p].newTrades = NewTradesOf(db, id, r.models[id]),
                                !.reqs[p].pc = "insert"]
    /\ UNCHANGED << engineVars, bt, btSolo, strat, db >>

\* The insert of the new trades and the replacement of the positions.
SaveInsert(p) ==
    /\ live.pc = "overlap"
    /\ live.reqs[p].pc = "insert"
    /\ LET r == live.reqs[p]
           id == Head(r.todo)
       IN  /\ db' = SaveModelRest(db, id, r.models[id], r.newTrades)
           /\ live' = [live EXCEPT !.reqs[p].todo = Tail(r.todo),
                                   !.reqs[p].newTrades = << >>,
                                   !.reqs[p].pc = IF Tail(r.todo) = << >> THEN "done"
                                                                          ELSE "save"]
    /\ UNCHANGED << engineVars, bt, btSolo, strat >>

NextOverlap ==
    \/ EarlierRequest
    \/ \E p \in Requests :
          \/ LoadRequest(p)
          \/ InitSelect(p)
          \/ InitSave(p)
          \/ RollOver(p)
          \/ CycleRequest(p)
          \/ SaveRow(p)
          \/ SaveSelect(p)
          \/ SaveInsert(p)

\* Two trade requests on one store, their steps in any order.
SpecOverlap == InitOverlap /\ [][NextOverlap]_vars

\* ------------------------------------------------------------------------
\* Vocabulary of the properties
\* ------------------------------------------------------------------------

IsBuy(decision) == decision.action \in {"BUY_YES", "BUY_NO"}

\* Direction, price and cost of the BUY the strategy id decided in the last
\* cycle, read off the bar of that cycle.
LastDirection(id) == IF lastDecide[id].action = "BUY_YES" THEN "UP" ELSE "DOWN"

LastPrice(id) == IF lastDecide[id].action = "BUY_YES" THEN lastData.yesPrice
                                                         ELSE lastData.noPrice

LastCost(id) == RMul(LastPrice(id), Num(lastDecide[id].quantity))

\* The last engine call was a cycle in which id decided a BUY.
LastBuy(id) == lastOp = "cycle" /\ IsBuy(lastDecide[id])

\* ------------------------------------------------------------------------
\* C1: in every reachable state every strategy's balance is >= 0.
\* ------------------------------------------------------------------------
C1_BalanceNonNegative ==
    \A id \in DOMAIN models : RLe(Num(0), models[id].balance)

\* A trade has spent the whole balance: the balance sits exactly at 0.
C1_Witness ==
    \E id \in DOMAIN models :
        /\ models[id].balance = Num(0)
        /\ Len(models[id].trades) = 2
        /\ Len(models[id].positions) = 2

\* ------------------------------------------------------------------------
\* C2: a BUY decision executes iff price * quantity <= balance (equality
\* executes); on execution the balance drops by exactly that cost and exactly
\* one trade with that direction, price, quantity and cost is appended;
\* otherwise balance and trades stay as they were.
\* ------------------------------------------------------------------------
C2_BuyExecutesIffAffordable ==
    \A id \in DOMAIN models :
        LastBuy(id) =>
            IF RLe(LastCost(id), prev[id].balance)
            THEN /\ models[id].balance = RSub(prev[id].balance, LastCost(id))
                 /\ models[id].trades =
                        Append(prev[id].trades,
                               [ direction |-> LastDirection(id),
                                 price     |-> LastPrice(id),
                                 quantity  |-> lastDecide[id].quantity,
                                 cost      |-> LastCost(id) ])
            ELSE /\ models[id].balance = prev[id].balance
                 /\ models[id].trades = prev[id].trades

\* A BUY whose cost equals the (positive) balance has executed.
C2_Witness ==
    \E id \in DOMAIN models :
        /\ LastBuy(id)
        /\ RLt(Num(0), prev[id].balance)
        /\ LastCost(id) = prev[id].balance
        /\ Len(models[id].trades) = Len(prev[id].trades) + 1

\* ------------------------------------------------------------------------
\* C3: a BUY whose cost exceeds the balance is dropped: the strategy's state
\* is unchanged by that cycle, and nothing is queued: a trade is only ever
\* appended for an affordable BUY decided in that same cycle.
\* ------------------------------------------------------------------------
C3_DroppedNotRetried ==
    \A id \in DOMAIN models :
        /\ (LastBuy(id) /\ ~RLe(LastCost(id), prev[id].balance))
              => models[id] = prev[id]
        /\ (models[id].trades # prev[id].trades)
              => (LastBuy(id) /\ RLe(LastCost(id), prev[id].balance))
        /\ ~threw

\* A BUY costing more than the balance was decided while the strategy held
\* a position and still had money.
C3_Witness ==
    \E id \in DOMAIN models :
        /\ LastBuy(id)
        /\ RLt(prev[id].balance, LastCost(id))
        /\ RLt(Num(0), prev[id].balance)
        /\ Len(prev[id].positions) > 0

\* The affordable BUY that id decided in the last cycle has executed.
LastBuyAffordable(id) == LastBuy(id) /\ RLe(LastCost(id), prev[id].balance)

\* Sum of a sequence of numbers.
RECURSIVE SumSeq(_)
SumSeq(xs) == IF xs = << >> THEN Num(0) ELSE RAdd(Head(xs), SumSeq(Tail(xs)))

\* ------------------------------------------------------------------------
\* C4: for every strategy and every open position,
\* totalCost = averagePrice * quantity.
\* ------------------------------------------------------------------------
C4_TotalCostIsAverageTimesQuantity ==
    \A id \in DOMAIN models :
        \A i \in DOMAIN models[id].positions :
            LET p == models[id].positions[i]
            IN  p.totalCost = RMul(p.averagePrice, Num(p.quantity))

\* A position averaged from trades at different prices: its average price
\* is not a whole number and is none of the bar prices.
C4_Witness ==
    \E id \in DOMAIN models :
        \E i \in DOMAIN models[id].positions :
            /\ models[id].positions[i].averagePrice[2] > 1
            /\ models[id].positions[i].quantity > 1

\* ------------------------------------------------------------------------
\* C5: each strategy holds at most one open position per direction; a trade
\* in a direction that already has a position adds its quantity and cost to
\* that position and leaves the number of positions as it was.
\* ------------------------------------------------------------------------
C5_OnePositionPerDirection ==
    \A id \in DOMAIN models :
        LET ps == models[id].positions
            old == prev[id].positions
        IN  /\ \A i, j \in DOMAIN ps : i # j => ps[i].direction # ps[j].direction
            /\ (/\ LastBuyAffordable(id)
                /\ \E i \in DOMAIN old : old[i].direction = LastDirection(id))
               => /\ Len(ps) = Len(old)
                  /\ \A i \in DOMAIN old :
                        IF old[i].direction = LastDirection(id)
                        THEN /\ ps[i].direction = old[i].direction
                             /\ ps[i].quantity = old[i].quantity + lastDecide[id].quantity
                             /\ ps[i].totalCost = RAdd(old[i].totalCost, LastCost(id))
                        ELSE ps[i] = old[i]

\* A trade has been averaged into the existing position of its direction
\* while the strategy also holds a position in the other direction.
C5_Witness ==
    \E id \in DOMAIN models :
        /\ LastBuyAffordable(id)
        /\ \E i \in DOMAIN prev[id].positions :
              prev[id].positions[i].direction = LastDirection(id)
        /\ Len(prev[id].positions) = 2

\* ------------------------------------------------------------------------
\* C6: settlePositions(bar) adds to each strategy's balance the sum over its
\* open positions of (yesPrice for UP, noPrice for DOWN) * quantity, adds to
\* totalPnL the sum of (that exit value - totalCost), and leaves the strategy
\* without open positions.
\* ------------------------------------------------------------------------
C6_SettleEffect ==
    lastOp = "settle" =>
        \A id \in DOMAIN models :
            LET old == prev[id].positions
                exit == [i \in DOMAIN old |->
                            RMul(IF old[i].direction = "UP" THEN lastData.yesPrice
                                                            ELSE lastData.noPrice,
                                 Num(old[i].quantity))]
                pnl == [i \in DOMAIN old |-> RSub(exit[i], old[i].totalCost)]
            IN  /\ models[id].balance = RAdd(prev[id].balance, SumSeq(exit))
                /\ models[id].totalPnL = RAdd(prev[id].totalPnL, SumSeq(pnl))
                /\ models[id].positions = << >>

\* A settlement has paid out an UP and a DOWN position of one strategy.
C6_Witness ==
    /\ lastOp = "settle"
    /\ \E id \in DOMAIN models :
          /\ Len(prev[id].positions) = 2
          /\ models[id].balance # prev[id].balance
          /\ models[id].totalPnL # prev[id].totalPnL

\* ------------------------------------------------------------------------
\* C7: a settlePositions call that directly follows another settlePositions
\* call leaves every strategy's balance, totalPnL and (empty) positions
\* unchanged, whatever bar it is given.
\* ------------------------------------------------------------------------
C7_SettleTwiceIdempotent ==
    (lastOp = "settle" /\ prevOp = "settle") =>
        \A id \in DOMAIN models :
            /\ models[id].balance = prev[id].balance
            /\ models[id].totalPnL = prev[id].totalPnL
            /\ prev[id].positions = << >>
            /\ models[id].positions = << >>

\* Two settlements in a row after a trade whose settlement changed the P&L.
C7_Witness ==
    /\ lastOp = "settle"
    /\ prevOp = "settle"
    /\ \E id \in DOMAIN models :
          /\ Len(models[id].trades) > 0
          /\ models[id].totalPnL # Num(0)

\* ------------------------------------------------------------------------
\* C8: after settlePositions, each strategy's dailyReturn equals
\* (balance - initialBalance) / initialBalance * 100, where initialBalance is
\* the balance its state was seeded with.
\* ------------------------------------------------------------------------
C8_DailyReturnFromSeed ==
    lastOp = "settle" =>
        \A id \in DOMAIN models :
            models[id].dailyReturn =
                RMul(RDiv(RSub(models[id].balance, Num(initialBalance)),
                          Num(initialBalance)), Num(100))

\* ------------------------------------------------------------------------
\* C9: when a strategy's decision function throws during a cycle, the call
\* does not throw, the throwing strategy's state is as before the cycle, and
\* the decisions of the other strategies are applied.
\* ------------------------------------------------------------------------
C9_ThrowIsContained ==
    (lastOp = "cycle" /\ \E id \in DOMAIN models : lastDecide[id].action = "THROW") =>
        /\ ~threw
        /\ \A id \in DOMAIN models :
              /\ lastDecide[id].action = "THROW" => models[id] = prev[id]
              /\ LastBuyAffordable(id) =>
                    /\ Len(models[id].trades) = Len(prev[id].trades) + 1
                    /\ models[id].balance = RSub(prev[id].balance, LastCost(id))
              /\ lastDecide[id].action = "SELL" =>
                    /\ models[id].positions = << >>
                    /\ models[id].balance =
                          RAdd(prev[id].balance,
                               SumSeq([i \in DOMAIN prev[id].positions |->
                                          prev[id].positions[i].totalCost]))

\* The first strategy of the engine threw while holding a position, and the
\* strategy after it bought in the same cycle.
C9_Witness ==
    /\ lastOp = "cycle"
    /\ Len(order) = 2
    /\ lastDecide[order[1]].action = "THROW"
    /\ Len(prev[order[1]].positions) > 0
    /\ LastBuyAffordable(order[2])
    /\ Len(models[order[2]].trades) = Len(prev[order[2]].trades) + 1

\* ------------------------------------------------------------------------
\* C10: strategies of one engine are independent: whatever the order in
\* which the engine evaluates them, each strategy's state is the state it has
\* when it runs alone in its own engine on the same bars and decisions.
\* ------------------------------------------------------------------------
C10_StrategiesIndependent ==
    \A id \in DOMAIN models : models[id] = solo[id][id]

\* Both strategies of a two-strategy engine have traded, to different
\* balances, and one of them has since sold.
C10_Witness ==
    /\ Len(order) = 2
    /\ \A id \in DOMAIN models : Len(models[id].trades) > 0
    /\ models[order[1]].balance # models[order[2]].balance
    /\ \E id \in DOMAIN models : lastDecide[id].action = "SELL"

\* s is a prefix of t.
IsPrefix(s, t) == Len(s) <= Len(t) /\ \A k \in DOMAIN s : s[k] = t[k]

\* ------------------------------------------------------------------------
\* C11: between resets the trade log is append-only: an executeTradingCycle
\* or settlePositions call leaves every strategy's earlier trade list as a
\* prefix of its new trade list, every recorded trade unchanged.
\* ------------------------------------------------------------------------
C11_TradeLogAppendOnly ==
    lastOp \in {"cycle", "settle"} =>
        \A id \in DOMAIN models : IsPrefix(prev[id].trades, models[id].trades)

\* A settlement has paid out a strategy that has two recorded trades.
C11_Witness ==
    /\ lastOp = "settle"
    /\ \E id \in DOMAIN models :
          /\ Len(prev[id].trades) = 2
          /\ Len(prev[id].positions) > 0
          /\ models[id].trades = prev[id].trades

\* ------------------------------------------------------------------------
\* C12: after resetAllModels every strategy is in the zeroed initial state:
\* the balance it was created with, no positions, no trades, totalPnL 0 and
\* dailyReturn 0, under the same ids.
\* ------------------------------------------------------------------------
C12_ResetRestoresInitial ==
    lastOp = "reset" =>
        /\ DOMAIN models = DOMAIN prev
        /\ \A id \in DOMAIN models : models[id] = NewModelState(initialBalance)

\* ------------------------------------------------------------------------
\* Properties of runBacktest
\* ------------------------------------------------------------------------

\* A runBacktest call is past its entry.
Entered == bt.pc \in {"run", "done", "failed"}

\* The loop body has run for a bar of the current strategy.
Stepped == Entered /\ bt.step.i >= 0

\* Stepped, on a bar that is not the last of the series.
SteppedInner == Stepped /\ bt.step.i < Len(bt.hist) - 1

\* Stepped, on the last bar of the series.
SteppedLast == Stepped /\ bt.step.i = Len(bt.hist) - 1

\* currentPrice of the bar of the last step and of the bar after it.
StepPrice == bt.hist[bt.step.i + 1].currentPrice

StepNextPrice == bt.hist[bt.step.i + 2].currentPrice

\* Number of contracts of the given direction in positions[i..].
RECURSIVE ContractsFrom(_, _, _)
ContractsFrom(positions, direction, i) ==
    IF i > Len(positions) THEN 0
    ELSE (IF positions[i].direction = direction THEN positions[i].quantity ELSE 0)
         + ContractsFrom(positions, direction, i + 1)

Contracts(positions, direction) == ContractsFrom(positions, direction, 1)

\* The settlement of the last step paid 100 per contract of the direction
\* winner and nothing for the other direction.
StepPaid(winner) ==
    /\ bt.step.after.positions = << >>
    /\ bt.step.after.balance =
           RAdd(bt.step.afterCycle.balance,
                Num(100 * Contracts(bt.step.afterCycle.positions, winner)))

\* C13: runBacktest on a series of fewer than 20 bars fails with the
\* insufficient-data error before any strategy is processed: no decision
\* function is invoked, no engine state exists and no result is produced.
C13_ShortSeriesFails ==
    (Entered /\ Len(bt.hist) < MinBars) =>
        /\ bt.pc = "failed"
        /\ bt.error = "insufficient"
        /\ bt.calls = 0
        /\ bt.m = 0
        /\ bt.engine = << >>
        /\ bt.results = << >>

\* A call on 19 bars has failed.
C13_Witness ==
    /\ bt.pc = "failed"
    /\ Len(bt.hist) = 19
    /\ Len(bt.list) = 2

\* C14: for a bar that is not the last, the positions opened in its cycle
\* are settled winner-take-all against the next bar: a higher next price
\* pays UP 100 per contract and DOWN nothing, a lower one pays DOWN 100 and
\* UP nothing.
C14_WinnerTakeAll ==
    SteppedInner =>
        /\ StepNextPrice > StepPrice => StepPaid("UP")
        /\ StepNextPrice < StepPrice => StepPaid("DOWN")

\* Two UP contracts bought on a bar before a rise were paid 200.
C14_Witness ==
    /\ SteppedInner
    /\ StepNextPrice > StepPrice
    /\ Contracts(bt.step.afterCycle.positions, "UP") = 2
    /\ bt.step.after.balance = RAdd(bt.step.afterCycle.balance, Num(200))

\* C15: when the next bar's price equals the bar's price, the settlement of
\* the bar pays DOWN positions 100 per contract and UP positions nothing.
C15_FlatPaysDown ==
    (SteppedInner /\ StepNextPrice = StepPrice) =>
        /\ bt.step.settlement.yesPrice = Num(0)
        /\ bt.step.settlement.noPrice = Num(100)
        /\ StepPaid("DOWN")

\* An UP contract bought on a bar before a flat movement was paid nothing.
C15_Witness ==
    /\ SteppedInner
    /\ StepNextPrice = StepPrice
    /\ Contracts(bt.step.afterCycle.positions, "UP") = 1
    /\ bt.step.after.balance = bt.step.afterCycle.balance
    /\ bt.step.after.positions = << >>

\* C16: the cycle of the last bar is settled at that bar's own yes/no
\* prices, so the last cycle leaves the balance and totalPnL as they were
\* before it.
C16_LastBarSettledAtOwnPrices ==
    SteppedLast =>
        /\ bt.step.settlement = bt.hist[Len(bt.hist)]
        /\ bt.step.after.positions = << >>
        /\ bt.step.after.balance = bt.step.before.balance
        /\ bt.step.after.totalPnL = bt.step.before.totalPnL

\* Two contracts were bought on the last bar, after an earlier bar of the
\* run had changed the balance.
C16_Witness ==
    /\ SteppedLast
    /\ Len(bt.step.afterCycle.positions) = 1
    /\ bt.step.afterCycle.positions[1].quantity = 2
    /\ bt.step.before.balance # Num(bt.initialBalance)
    /\ bt.step.after.balance = bt.step.before.balance

\* C17: every strategy of the list starts on a fresh engine seeded with
\* initialBalance, its result equals the result of a call on that strategy
\* alone (same series, seed and decisions), and the states of the templates
\* passed in stay as they were.
C17_IsolatedRuns ==
    (Entered /\ bt.pc # "failed") =>
        /\ bt.templates = [id \in Ids(bt.list) |-> NewModelState(DefaultBalance)]
        /\ (bt.pc = "run" /\ bt.i = BatchSize) =>
               bt.engine = [id \in {bt.list[bt.m]} |-> NewModelState(bt.initialBalance)]
        /\ btSolo.last.pc = "done" =>
               /\ Len(btSolo.last.results) = 1
               /\ bt.results[Len(bt.results)] = btSolo.last.results[1]

\* A call seeded 250 on momentum then random has returned, and both
\* strategies traded.
C17_Witness ==
    /\ bt.pc = "done"
    /\ bt.list = << "momentum", "random" >>
    /\ bt.initialBalance = 250
    /\ Len(bt.results) = 2
    /\ bt.results[1].totalTrades = 1
    /\ bt.results[2].totalTrades = 1
    /\ bt.results[2].modelId = "random"
    /\ bt.results[1].trades # bt.results[2].trades

\* The results pushed so far by the runBacktest call.
Results == IF Entered THEN { bt.results[k] : k \in DOMAIN bt.results } ELSE {}

\* The price change from the bar with index i to the next bar matches the
\* direction beyond the threshold of 0.01 percent.
MovedBeyondThreshold(i, direction) ==
    LET change == PriceChangePercent(bt.hist[i + 1].currentPrice,
                                     bt.hist[i + 2].currentPrice)
    IN  IF direction = "UP" THEN RLt(<<1, 100>>, change)
                            ELSE RLt(change, <<-1, 100>>)

\* C18: each trade is classified against the period in which it was made: a
\* trade executed in the cycle of bar i is a win if and only if the price
\* change from bar i to bar i+1 matches its direction beyond 0.01 percent.
C18_ClassifiedByOwnBar ==
    \A r \in Results : \A k \in DOMAIN r.trades :
        r.outcomes[k] = "win" <=>
            /\ r.tradeBars[k] < Len(bt.hist) - 1
            /\ MovedBeyondThreshold(r.tradeBars[k], r.trades[k].direction)

\* The bars of the series less than 15 minutes from the time t.
BarsNear(t) ==
    { j \in 0..(Len(bt.hist) - 1) : Abs(bt.hist[j + 1].timestamp - t) < 15 }

\* The trade stamped t has no matching bar, or its matching bar (the first
\* one near t) is the last bar of the series.
Unmatched(t) ==
    \/ BarsNear(t) = {}
    \/ \A j \in BarsNear(t) : j = Len(bt.hist) - 1

\* Sum of the cost of the trades[k..] whose outcome is a loss.
RECURSIVE LossCostFrom(_, _, _)
LossCostFrom(trades, outcomes, k) ==
    IF k > Len(trades) THEN Num(0)
    ELSE RAdd(IF outcomes[k] = "loss" THEN trades[k].cost ELSE Num(0),
              LossCostFrom(trades, outcomes, k + 1))

\* C19: in every result each trade is counted once, as a win or as a loss,
\* so winningTrades + losingTrades = totalTrades = length of the trade log;
\* a trade with no matching bar, or matching the last bar, is a loss, and
\* every loss adds the trade's cost to the losses.
C19_EveryTradeCountedOnce ==
    \A r \in Results :
        /\ r.totalTrades = Len(r.trades)
        /\ r.winningTrades + r.losingTrades = r.totalTrades
        /\ DOMAIN r.outcomes = DOMAIN r.trades
        /\ r.winningTrades = Cardinality({k \in DOMAIN r.trades : r.outcomes[k] = "win"})
        /\ r.losingTrades = Cardinality({k \in DOMAIN r.trades : r.outcomes[k] = "loss"})
        /\ \A k \in DOMAIN r.trades :
               Unmatched(r.tradeTimes[k]) => r.outcomes[k] = "loss"
        /\ r.totalLosses = LossCostFrom(r.trades, r.outcomes, 1)

\* A result with two trades, neither with a matching bar: two losses that
\* add up to the two costs.
C19_Witness ==
    \E r \in Results :
        /\ r.totalTrades = 2
        /\ r.losingTrades = 2
        /\ \A k \in DOMAIN r.trades : BarsNear(r.tradeTimes[k]) = {}
        /\ r.totalLosses = RAdd(r.trades[1].cost, r.trades[2].cost)
        /\ r.trades[1].cost # r.trades[2].cost

\* ------------------------------------------------------------------------
\* Properties of the store
\* ------------------------------------------------------------------------

\* C20: right after a save, loading gives back, for every strategy of the
\* engine, the identical balance, trade list (same trades, same order, same
\* ids), position list, totalPnL and dailyReturn.
C20_SaveLoadRoundTrip ==
    lastOp = "save" =>
        LET loaded == LoadModelsFromDb(db)
        IN  /\ DOMAIN loaded = DOMAIN models
            /\ \A id \in DOMAIN models :
                  /\ loaded[id].balance = models[id].balance
                  /\ loaded[id].trades = MemTrades(id, models[id])
                  /\ loaded[id].positions = models[id].positions
                  /\ loaded[id].totalPnL = models[id].totalPnL
                  /\ loaded[id].dailyReturn = models[id].dailyReturn

\* ------------------------------------------------------------------------
\* Properties of SELL
\* ------------------------------------------------------------------------

\* Sum of totalCost over the positions a strategy held before the last call.
RECURSIVE HeldCost(_, _)
HeldCost(positions, i) ==
    IF i > Len(positions) THEN <<0, 1>>
    ELSE RAdd(positions[i].totalCost, HeldCost(positions, i + 1))

Decided(id) == strat.pc = "done" /\ strat.id = id

\* The call is on the bar-level path: the current bar has no candles.
BarLevel == Len(strat.marketData.minuteCandles) = 0

\* The price points of the bar-level path of Momentum: up to the last 10
\* prices of the history, then the current price.
BarPoints ==
    LET h == strat.history
        k == IF Len(h) < 10 THEN Len(h) ELSE 10
    IN  [j \in 1..(k + 1) |->
            IF j <= k THEN h[Len(h) - k + j].currentPrice
                      ELSE strat.marketData.currentPrice]

\* BUY_YES 5, BUY_NO 5 or HOLD by the momentum (last - first) / first over
\* the last min(10, floor(n/2)) of the n points, against the threshold
\* 0.01 (n <= 15) or 0.002 (n > 15), without division.
MomentumRule(points) ==
    LET n == Len(points)
        w == IF n \div 2 < 10 THEN n \div 2 ELSE 10
        first == points[n - w + 1]
        last == points[n]
        over(change) == IF n > 15 THEN 1000 * change > 2 * first
                                  ELSE 100 * change > first
    IN  IF over(last - first) THEN [action |-> "BUY_YES", quantity |-> 5]
        ELSE IF over(first - last) THEN [action |-> "BUY_NO", quantity |-> 5]
        ELSE [action |-> "HOLD"]

RSIAssembled ==
    IF BarLevel THEN Len(strat.history) >= 15
    ELSE Len(CandlePrices(strat.marketData, strat.history)) >= 15

RSIPoints ==
    IF BarLevel
    THEN [j \in 1..(Len(strat.history) + 1) |->
             IF j <= Len(strat.history) THEN strat.history[j].currentPrice
                                        ELSE strat.marketData.currentPrice]
    ELSE CandlePrices(strat.marketData, strat.history)

\* The sum of the rises and the sum of the falls between consecutive points.
Gains(points) == SumChanges(points, 1, 1)

Losses(points) == SumChanges(points, 1, -1)

\* Every point is one step below the one before it.
FallsByOne(points) ==
    \A j \in 1..(Len(points) - 1) : points[j + 1] = points[j] - 1

RECURSIVE HistorySumTo(_)
HistorySumTo(k) ==
    IF k = 0 THEN 0 ELSE strat.history[k].currentPrice + HistorySumTo(k - 1)

HistorySum == HistorySumTo(Len(strat.history))

\* C29: with at least 10 history bars Mean Reversion takes deviation =
\* (current price - average history price) / average and returns BUY_NO 5
\* when deviation > 0.02, BUY_YES 5 when deviation < -0.02 and HOLD
\* otherwise, a deviation of exactly 0.02 or -0.02 included. With s the sum
\* of the n history prices and c the current price, deviation > 0.02 is
\* 50 * (c * n - s) > s.
C29_MeanReversionRule ==
    (Decided("mean-reversion") /\ Len(strat.history) >= 10) =>
        LET n == Len(strat.history)
            c == strat.marketData.currentPrice
        IN  strat.decision =
                IF 50 * (c * n - HistorySum) > HistorySum
                THEN [action |-> "BUY_NO", quantity |-> 5]
                ELSE IF 50 * (HistorySum - c * n) > HistorySum
                THEN [action |-> "BUY_YES", quantity |-> 5]
                ELSE [action |-> "HOLD"]

\* Mean Reversion held at a deviation of exactly 0.02: ten bars at 100 and
\* a current price of 102.
C29_Witness ==
    /\ Decided("mean-reversion")
    /\ Len(strat.history) = 10
    /\ \A j \in 1..10 : strat.history[j].currentPrice = 100
    /\ strat.marketData.currentPrice = 102
    /\ strat.decision = [action |-> "HOLD"]
    /\ strat.after = strat.before

\* The strategy of the call has too little data for its indicator.
TooLittleData ==
    LET n == Len(strat.history)
        points == Len(CandlePrices(strat.marketData, strat.history))
    IN  \/ strat.id \in {"mean-reversion", "volatility"} /\ n < 10
        \/ strat.id = "rsi" /\ (IF BarLevel THEN n + 1 < 15 ELSE points < 15)
        \/ strat.id = "momentum" /\ (IF BarLevel THEN n < 3 \/ n + 1 < 5
                                                 ELSE points < 5)

\* C30: a strategy with too little data for its indicator returns HOLD and
\* does not throw: Mean Reversion and Volatility with fewer than 10 history
\* bars, RSI with fewer than 15 price points, Momentum with fewer than 5
\* price points or fewer than 3 history bars on the bar-level path; the
\* cycle leaves the state of the strategy unchanged.
C30_TooLittleDataHolds ==
    (strat.pc = "done" /\ TooLittleData) =>
        /\ strat.decision = [action |-> "HOLD"]
        /\ ~strat.error
        /\ strat.after = strat.before

\* Momentum held on 3 history bars and a current price 3 above the last
\* one, a rise of more than 1 percent.
C30_Witness ==
    /\ Decided("momentum")
    /\ BarLevel
    /\ Len(strat.history) = 3
    /\ strat.history[3].currentPrice = 102
    /\ strat.marketData.currentPrice = 105
    /\ strat.decision = [action |-> "HOLD"]
    /\ strat.after = strat.before

\* ------------------------------------------------------------------------
\* Properties of two runs of a backtest
\* ------------------------------------------------------------------------

\* The result of the strategy that the call has just finished, and the
\* result of the same strategy in a second call on the same series with the
\* same initialBalance, in which the strategy, given the same bars, makes
\* the same decisions.
FirstRun == btSolo.last.results[1]

SecondRun == btSolo.relast.results[1]

\* The two calls have returned a result for a strategy that decides from
\* its bars alone.
RanTwice ==
    /\ btSolo.last.pc = "done"
    /\ btSolo.relast.pc = "done"
    /\ FirstRun.modelId \in IndicatorIds

GotEngine == live.pc = "live" /\ live.last.kind \in {"get", "trade"}

\* The last request found a new day and reset the strategies.
RolledOver == GotEngine /\ live.last.newDay

\* performance_history holds, under (id, date), the state that the strategy
\* id had when the last request loaded it.
Snapshot(id, date) ==
    /\ << id, date >> \in DOMAIN db.history
    /\ db.history[<< id, date >>] =
           [ starting_balance |-> Num(100),
             ending_balance   |-> live.last.loaded[id].balance,
             daily_return     |-> live.last.loaded[id].dailyReturn,
             total_trades     |-> Len(live.last.loaded[id].trades),
             total_pnl        |-> live.last.loaded[id].totalPnL ]

\* C21: when a request has reset the strategies for a new day, the store
\* holds for every strategy a performance-history record under (strategy
\* id, last-reset date) with its ending balance, return, trade count and
\* P&L of before the reset: no strategy is reset without its snapshot.
C21_SnapshotBeforeReset ==
    RolledOver =>
        \A id \in Ids(live.last.order) : Snapshot(id, live.last.yesterday)

\* C22: after a request has reset the strategies for a new day and saved
\* them, loading from the store gives every strategy in the zeroed state
\* (balance 100, no position, no trade, totalPnL 0, dailyReturn 0), and
\* the request is not served on the day of an earlier reset.
C22_ResetIsStoredOncePerDay ==
    (RolledOver /\ live.last.kind = "get") =>
        /\ \A id \in Ids(live.last.order) :
              LoadModelsFromDb(db)[id] = NewModelState(100)
        /\ live.prevResetDay # live.day

\* C23: after reloading from the store, every strategy whose id is one of
\* createAllModels() has the makeDecision that createAllModels() gives
\* that id, not the placeholder that returns HOLD, and what was loaded for
\* it is state only: balance, positions, trades, totalPnL, dailyReturn.
C23_DecisionFunctionsRestored ==
    (GotEngine /\ live.last.fromStore) =>
        /\ \A id \in Ids(live.last.order) :
              /\ id \in Ids(AllModels) =>
                    live.last.fns[id] = id /\ live.last.fns[id] # Placeholder
              /\ DOMAIN live.last.loaded[id] =
                    {"balance", "positions", "trades", "totalPnL", "dailyReturn"}
        /\ (live.last.kind = "trade" /\ "momentum" \in Ids(live.last.order)) =>
              live.last.decide["momentum"] =
                  MomentumDecision(live.last.marketData, live.last.history)

\* A reloaded Momentum strategy decided to buy and its trade is stored.
C23_Witness ==
    /\ GotEngine
    /\ live.last.kind = "trade"
    /\ live.last.fromStore
    /\ live.last.decide["momentum"] = [action |-> "BUY_YES", quantity |-> 5]
    /\ \E k \in DOMAIN db.trades :
          /\ db.trades[k].model_id = "momentum"
          /\ db.trades[k].timestamp = live.now - 1

\* The bars a source returned count as none when it threw or returned none.
NoBars(n) == n <= 0

\* C25: a failure of the market data source does not abort a live cycle or
\* a backtest: fetchMarketData and generateHistoricalData give simulated
\* bars when the source fails, the cycle runs and the request succeeds;
\* the backtest route takes the 1-minute data, else the 15-minute bars,
\* else the bars of generateHistoricalData, and answers with an error only
\* when the bars it got are fewer than 20.
C25_SourceFailureFallsBack ==
    (live.pc = "done") =>
        /\ live.route = "trade" =>
              /\ live.status = 200
              /\ DOMAIN live.decide = Ids(AllModels)
              /\ live.current = "throws" =>
                    live.marketData.from = "simulated" /\ live.marketData.data = SimulatedBar
              /\ NoBars(live.historical) =>
                    live.history.from = "simulated" /\ Len(live.history.data) = 20
        /\ live.route = "backtest" =>
              /\ live.status # 500
              /\ live.from = IF ~NoBars(live.oneMinute) THEN "1-minute"
                             ELSE IF ~NoBars(live.fifteen) THEN "15-minute"
                             ELSE IF ~NoBars(live.historical) THEN "fxverify"
                             ELSE "simulated"
              /\ live.bars = IF ~NoBars(live.oneMinute) THEN live.oneMinute
                             ELSE IF ~NoBars(live.fifteen) THEN live.fifteen
                             ELSE IF ~NoBars(live.historical) THEN live.historical
                             ELSE live.count
              /\ live.status = 400 <=> live.bars < 20

\* The source threw on every call of a backtest request for 20 bars: the
\* route runs on 20 simulated bars.
C25_Witness ==
    /\ live.pc = "done"
    /\ live.route = "backtest"
    /\ live.oneMinute = -1
    /\ live.fifteen = -1
    /\ live.historical = -1
    /\ live.from = "simulated"
    /\ live.bars = 20
    /\ live.status = 200

\* ------------------------------------------------------------------------
\* Properties of the balance history and the drawdown of a backtest
\* ------------------------------------------------------------------------

\* The highest balance among the first k points of a balance history.
PeakAt(points, k) ==
    CHOOSE p \in { points[j].balance : j \in 1..k } :
        \A j \in 1..k : RLe(points[j].balance, p)

\* How far the k-th point lies under the highest balance up to it.
DrawdownAt(points, k) == RSub(PeakAt(points, k), points[k].balance)

\* The largest DrawdownAt over the points of a balance history.
LargestDrawdown(points) ==
    CHOOSE d \in { DrawdownAt(points, k) : k \in 1..Len(points) } :
        \A k \in 1..Len(points) : RLe(DrawdownAt(points, k), d)

\* The balance history and drawdown of a result are those of the claim.
HistoryAndDrawdown(r) ==
    /\ Len(r.balanceHistory) = 1 + (Len(bt.hist) - BatchSize)
    /\ r.balanceHistory[1].balance = Num(bt.initialBalance)
    /\ \A k \in 2..Len(r.balanceHistory) :
          r.balanceHistory[k].timestamp = bt.hist[BatchSize + k - 1].timestamp
    /\ r.maxDrawdown = LargestDrawdown(r.balanceHistory)
    /\ RLe(Num(0), r.maxDrawdown)

\* C31: for a backtest over N >= 20 bars the balance history of a result
\* holds the initial balance followed by one point per processed bar (N - 20
\* points), each recorded after the settlement of its bar, and maxDrawdown
\* is the largest distance of a point below the highest balance up to it
\* (the initial balance included), never negative.
C31_BalanceHistoryAndDrawdown ==
    /\ (bt.pc = "run" /\ Stepped) =>
          /\ Len(bt.balanceHistory) = 1 + (bt.i - BatchSize)
          /\ bt.balanceHistory[Len(bt.balanceHistory)]
                = [ timestamp |-> bt.hist[bt.step.i + 1].timestamp,
                    balance   |-> bt.step.after.balance ]
          /\ bt.step.after.positions = << >>
    /\ (Entered /\ bt.pc # "failed") =>
          \A m \in DOMAIN bt.results : HistoryAndDrawdown(bt.results[m])

\* A run over 23 bars gained on bar 20 and lost on bar 21: its drawdown is
\* measured from the balance after the gain and is larger than its loss
\* against the initial balance.
C31_Witness ==
    /\ bt.pc = "done"
    /\ Len(bt.hist) = 23
    /\ Len(bt.results[1].balanceHistory) = 4
    /\ RLt(Num(bt.initialBalance), bt.results[1].balanceHistory[2].balance)
    /\ RLt(bt.results[1].balanceHistory[3].balance, Num(bt.initialBalance))
    /\ RLt(RSub(Num(bt.initialBalance), bt.results[1].endingBalance),
           bt.results[1].maxDrawdown)

\* ------------------------------------------------------------------------
\* Properties of the decision cycles of a backtest
\* ------------------------------------------------------------------------

\* The last step took the bar-level path: its bar carries no candles.
StepBarLevel == ~(bt.use1MinuteData /\ HasCandles(bt.hist[bt.step.i + 1]))

\* C32: in a backtest over N bars one decision cycle runs for each index i
\* from 20 to N-1, in increasing order, with bar i as the current bar; in
\* the bar-level path its history is exactly the bars i-20 .. i-1 in order;
\* on either path every point of the history lies before bar i, so no bar
\* with an index greater than i is visible to the decision at i.
C32_OneCyclePerBarNoLookAhead ==
    /\ bt.pc = "run" =>
          bt.calls = (bt.m - 1) * (Len(bt.hist) - BatchSize) + (bt.i - BatchSize)
    /\ bt.pc = "done" =>
          bt.calls = Len(bt.list) * (Len(bt.hist) - BatchSize)
    /\ (bt.pc = "run" /\ Stepped) =>
          /\ bt.step.i = bt.i - 1
          /\ bt.step.i >= BatchSize
          /\ bt.step.decisionData = bt.hist[bt.step.i + 1]
          /\ StepBarLevel =>
                /\ Len(bt.step.history) = BatchSize
                /\ \A k \in 1..BatchSize :
                      bt.step.history[k] = bt.hist[bt.step.i - BatchSize + k]
          /\ \A k \in DOMAIN bt.step.history :
                /\ bt.step.history[k].timestamp < bt.hist[bt.step.i + 1].timestamp
                /\ k > 1 => bt.step.history[k - 1].timestamp
                               < bt.step.history[k].timestamp

\* The third cycle of a run over 23 bars took the bar-level path on bar 22:
\* its history starts at bar 2 and ends at bar 21.
C32_Witness ==
    /\ bt.pc = "run"
    /\ Stepped
    /\ Len(bt.hist) = 23
    /\ bt.step.i = 22
    /\ bt.calls = 3
    /\ StepBarLevel
    /\ bt.step.history[1] = bt.hist[3]
    /\ bt.step.history[BatchSize] = bt.hist[22]

\* ------------------------------------------------------------------------
\* Properties of repeated saves
\* ------------------------------------------------------------------------

\* Number of rows of the trades table that belong to the strategy id.
StoredTrades(id) ==
    Cardinality({ k \in DOMAIN db.trades : db.trades[k].model_id = id })

\* C33: saving is idempotent for trades: after saving the same in-memory
\* state once or several times, every trade of a strategy is stored exactly
\* once, so the number of its stored trades equals the length of its trade
\* list.
C33_SaveStoresEachTradeOnce ==
    lastOp = "save" =>
        \A id \in DOMAIN models : StoredTrades(id) = Len(models[id].trades)

\* ------------------------------------------------------------------------
\* Conservation of value
\* ------------------------------------------------------------------------

\* Sum of totalCost over the open positions of a strategy state.
OpenCost(state) == HeldCost(state.positions, 1)

\* C34: for every strategy, in every state reached from the seeded state by
\* trades, SELLs and settlements, balance + (sum of totalCost over its open
\* positions) - totalPnL equals the balance it was seeded with.
C34_ValueConserved ==
    \A id \in DOMAIN models :
        RSub(RAdd(models[id].balance, OpenCost(models[id])), models[id].totalPnL)
            = Num(initialBalance)

\* A strategy that has realised a profit or loss in a settlement and has
\* bought again in the next cycle.
C34_Witness ==
    \E id \in DOMAIN models :
        /\ models[id].totalPnL # Num(0)
        /\ models[id].positions # << >>
        /\ Len(models[id].trades) = 2
        /\ lastOp = "cycle"
        /\ prevOp = "settle"

\* ------------------------------------------------------------------------
\* Properties of the figures of a backtest result
\* ------------------------------------------------------------------------

\* C35: in every BacktestResult, totalReturn is endingBalance minus
\* startingBalance and equals the totalPnL the engine holds for the strategy.
C35_ReturnIsPnL ==
    (Entered /\ bt.pc # "failed") =>
        \A m \in DOMAIN bt.results :
            /\ bt.results[m].totalReturn
                  = RSub(bt.results[m].endingBalance, bt.results[m].startingBalance)
            /\ bt.results[m].totalReturn = bt.results[m].totalPnL

\* A run seeded with 250 has returned with two trades and a non-zero return.
C35_Witness ==
    /\ bt.pc = "done"
    /\ bt.initialBalance = 250
    /\ bt.results[1].totalTrades = 2
    /\ bt.results[1].totalReturn # Num(0)
    /\ bt.results[1].endingBalance # Num(250)

\* The strategy state of the engine of the running backtest.
BacktestModel == bt.engine[bt.list[bt.m]]

\* The loop over the bars of the current strategy is over.
BarsDone == bt.pc = "run" /\ bt.i >= Len(bt.hist)

\* C36: in a backtest the strategy has no open position at the start of a
\* decision cycle and after a loop iteration, a settlement covers at most
\* the one trade of its cycle, the final settlePositions after the loop
\* changes nothing, and endingBalance is the balance of the last point of
\* the balance history.
C36_FinalSettlementChangesNothing ==
    /\ bt.pc = "run" => BacktestModel.positions = << >>
    /\ (bt.pc = "run" /\ Stepped) =>
          /\ bt.step.before.positions = << >>
          /\ Len(bt.step.afterCycle.positions) <= 1
          /\ Len(bt.step.afterCycle.trades) <= Len(bt.step.before.trades) + 1
          /\ bt.step.after.positions = << >>
    /\ BarsDone =>
          SettlePositions(bt.engine, bt.hist[Len(bt.hist)]) = bt.engine
    /\ (Entered /\ bt.pc # "failed") =>
          \A m \in DOMAIN bt.results :
              bt.results[m].endingBalance
                 = bt.results[m].balanceHistory[Len(bt.results[m].balanceHistory)].balance

\* ------------------------------------------------------------------------
\* Properties of the live trade cycle
\* ------------------------------------------------------------------------

\* The last request was a trade request that was answered with success.
Traded == live.pc = "live" /\ live.last.kind = "trade" /\ live.last.status = 200

\* C37: in the live trade cycle (decision cycle, settlement against the same
\* bar, save) the balance and totalPnL of every strategy after the request
\* equal their values before it, in the engine and in the store; no open
\* position is ever stored; the stored trade list only grows.
C37_LiveCycleKeepsBalance ==
    /\ db.positions = << >>
    /\ Traded =>
          \A id \in Ids(live.last.order) :
              LET before == live.last.loaded[id]
                  after == live.last.models[id]
                  stored == LoadModelsFromDb(db)[id]
              IN  /\ after.balance = before.balance
                  /\ after.totalPnL = before.totalPnL
                  /\ after.positions = << >>
                  /\ stored.balance = before.balance
                  /\ stored.totalPnL = before.totalPnL
                  /\ stored.positions = << >>
                  /\ IsPrefix(before.trades, stored.trades)

\* Momentum, loaded from the store with a trade of an earlier request, has
\* bought 5 UP contracts in a trade request: its stored balance is as before
\* and it has one more stored trade.
C37_Witness ==
    /\ Traded
    /\ live.last.fromStore
    /\ live.last.decide["momentum"] = BuyYes5
    /\ Len(live.last.loaded["momentum"].trades) = 1
    /\ Len(LoadModelsFromDb(db)["momentum"].trades) = 2
    /\ LoadModelsFromDb(db)["momentum"].balance = live.last.loaded["momentum"].balance

\* ------------------------------------------------------------------------
\* Properties of overlapping trade requests
\* ------------------------------------------------------------------------

\* Both requests have been answered.
BothDone == live.pc = "overlap" /\ \A p \in Requests : live.reqs[p].pc = "done"

\* What a trades row holds besides the id the store gave it.
TradeContent(row) ==
    [ model_id  |-> row.model_id,  timestamp |-> row.timestamp,
      direction |-> row.direction, price     |-> row.price,
      quantity  |-> row.quantity,  cost      |-> row.cost ]

\* How many trades rows of the store d hold the content c.
TimesStored(d, c) ==
    Cardinality({ k \in DOMAIN d.trades : TradeContent(d.trades[k]) = c })

\* The stores d and e hold the same trades, each as many times.
SameTrades(d, e) ==
    LET contents == { TradeContent(d.trades[k]) : k \in DOMAIN d.trades }
                    \cup { TradeContent(e.trades[k]) : k \in DOMAIN e.trades }
    IN  \A c \in contents : TimesStored(d, c) = TimesStored(e, c)

\* The stores d and e agree on the trades, the balance, the P&L and the
\* positions of every strategy.
SameStore(d, e) ==
    /\ DOMAIN d.models = DOMAIN e.models
    /\ \A id \in DOMAIN d.models :
          /\ d.models[id].balance = e.models[id].balance
          /\ d.models[id].total_pnl = e.models[id].total_pnl
    /\ { d.positions[k] : k \in DOMAIN d.positions }
          = { e.positions[k] : k \in DOMAIN e.positions }
    /\ SameTrades(d, e)

\* The store after the request p and then the request q, one after the
\* other, from the store the two requests started on.
OneAfterTheOther(p, q) ==
    LET first == live.reqs[p]
        second == live.reqs[q]
    IN  ServeTrade(ServeTrade(live.base, live.day, first.data, first.random, first.now),
                   live.day, second.data, second.random, second.now)

\* Every trade the engine of the request p executed is stored once.
TradesStoredOnce(p) ==
    \A id \in DOMAIN live.reqs[p].models :
        \A k \in DOMAIN live.reqs[p].models[id].trades :
            LET trade == live.reqs[p].models[id].trades[k]
            IN  trade.timestamp = live.reqs[p].now =>
                   Cardinality({ j \in DOMAIN db.trades :
                                    /\ db.trades[j].model_id = id
                                    /\ db.trades[j].timestamp = trade.timestamp
                                    /\ db.trades[j].direction = trade.direction
                                    /\ db.trades[j].quantity = trade.quantity }) = 1

\* The strategies of createAllModels() were stored when the two requests
\* started.
Persisted == Ids(AllModels) \subseteq DOMAIN live.base.models

\* C38: two trade requests that overlap on the same stored strategies leave
\* the store as running them one after the other, in one of the two orders,
\* leaves it: every trade of both requests is stored exactly once, and the
\* stored trades, balance, P&L and positions are those of that sequential
\* execution.
C38_OverlapIsSerializable ==
    (BothDone /\ Persisted) =>
        /\ \A p \in Requests : TradesStoredOnce(p)
        /\ \/ SameStore(db, OneAfterTheOther("a", "b"))
           \/ SameStore(db, OneAfterTheOther("b", "a"))

\* Both requests loaded the stored strategies before either had saved a
\* trade (each found the one trade of the earlier request), Momentum bought
\* in both, and the store holds the three trades.
C38_Witness ==
    /\ BothDone
    /\ Persisted
    /\ Len(live.base.trades) = 1
    /\ \A p \in Requests :
          /\ live.reqs[p].seen = 1
          /\ Len(live.reqs[p].models["momentum"].trades) = 1
    /\ Len(db.trades) = 3

\* ------------------------------------------------------------------------
\* Order of the price series of Momentum
\* ------------------------------------------------------------------------

\* Where the points pushed by the loop over history.slice(-5) come from, for
\* the bars h[i..] that stand at the places first + i - 1 of the history: a
\* pair << bar, candle >> for each close, << bar, 0 >> for a currentPrice.
RECURSIVE PushedFrom(_, _, _)
PushedFrom(h, i, first) ==
    IF i > Len(h) THEN << >>
    ELSE (IF Len(h[i].minuteCandles) > 0
          THEN [k \in DOMAIN h[i].minuteCandles |-> << first + i - 1, k >>]
          ELSE << << first + i - 1, 0 >> >>)
         \o PushedFrom(h, i + 1, first)

\* Where each point of priceData comes from, in the order in which
\* makeDecision of Momentum assembles it; the bars of the history are
\* numbered 1..Len(history) from the oldest, the current bar comes next.
MomentumPriceFrom(marketData, history) ==
    LET n == Len(history)
        current == n + 1
    IN  IF Len(marketData.minuteCandles) > 0
        THEN [k \in DOMAIN marketData.minuteCandles |-> << current, k >>]
             \o PushedFrom(LastN(history, 5), 1, n - Min(5, n) + 1)
        ELSE Append(LastN([j \in 1..n |-> << j, 0 >>], 10), << current, 0 >>)

\* The point a is older than the point b.
Older(a, b) == a[1] < b[1] \/ (a[1] = b[1] /\ a[2] < b[2])

\* The series from is in chronological order.
Chronological(from) ==
    \A j \in 1..(Len(from) - 1) : Older(from[j], from[j + 1])

\* Momentum has decided from 5 price points or more.
MomentumAssembled ==
    /\ Decided("momentum")
    /\ ~ (BarLevel /\ Len(strat.history) < 3)
    /\ Len(MomentumPriceData(strat.marketData, strat.history)) >= 5

\* The series is chronological and its window ends on the current bar and
\* starts on an older point.
WindowEndsOnCurrentBar ==
    LET from == MomentumPriceFrom(strat.marketData, strat.history)
        recent == LastN(from, Min(10, Len(from) \div 2))
    IN  /\ Chronological(from)
        /\ recent[Len(recent)][1] = Len(strat.history) + 1
        /\ Older(recent[1], recent[Len(recent)])

\* C39: the price series Momentum assembles is in chronological order on the
\* sub-bar path and on the bar-level path: the last element of the lookback
\* window is the most recent price, from the current bar, and the first
\* element is an older price.
C39_MomentumSeriesChronological ==
    MomentumAssembled => WindowEndsOnCurrentBar

\* On the bar-level path the series is chronological and its window ends on
\* the current bar.
BarLevelSeriesChronological ==
    (MomentumAssembled /\ BarLevel) => WindowEndsOnCurrentBar

\* On the sub-bar path the window never ends on the current bar.
SubBarSeriesOutOfOrder ==
    (MomentumAssembled /\ ~ BarLevel) => ~ WindowEndsOnCurrentBar

====
